---- MODULE Spec2Model ----
(***************************************************************************)
(* A model of the CBOE-emulator venue: the order-entry limit order book    *)
(* (LimitOrderBook, LimitTree, Account), the per-connection order-entry    *)
(* session (Connection, SystemAccount, Authorizer) and the market-data     *)
(* sender's sequence counter.                                              *)
(***************************************************************************)
EXTENDS Integers, Sequences, FiniteSets, TLC

\* ------------------------------------------------------------------------
\* Bounds of the model
\* ------------------------------------------------------------------------

\* the largest price an input may carry (prices are 0..MaxPrice)
MaxPrice == 2
\* the largest quantity an input may carry (quantities are 0..MaxQuantity)
MaxQuantity == 2
\* the largest order uid the book hands out (Spec)
MaxUID == 3
\* the largest order uid the book hands out when prices and quantities
\* may be 0 (SpecAny)
MaxAnyUID == 2
\* the largest price an input may carry when prices and quantities may be 0
\* (SpecAny)
MaxAnyPrice == 1
\* the largest number of frames one connection emits before inputs stop
MaxFrames == 3
\* the most frames or packets waiting in an output buffer when a request is
\* delivered
MaxBacklog == 0
\* the largest uid the book hands out in the server specification
MaxSessionUID == 2
\* the largest price and quantity of a request in the server specification
MaxSessionPrice == 1
MaxSessionQuantity == 1
MaxPackets == 5
MaxInFlight == 1
\* the most frames a client has received and not yet handled when the server
\* handles a request
MaxUnread == 0
MaxDatagrams == 3

\* ------------------------------------------------------------------------
\* Types
\* ------------------------------------------------------------------------

\* a null Limit pointer (LimitTree::best == nullptr)
NULL == -1
\* a null Account / Connection pointer
nullptr == "nullptr"

Sell == "Sell"
Buy == "Buy"
Sides == {Sell, Buy}

\* operator!(Side)
Invert(side) == IF side = Sell THEN Buy ELSE Sell

\* the side byte of an order-entry frame: 'B', 'S', or any other byte
WireSides == {"B", "S", "X"}
\* Messages::side_to_LOB_side: 'B' is Buy, every other byte is Sell
side_to_LOB_side(side) == IF side = "B" THEN Buy ELSE Sell
\* Messages::bool_to_side of a book side
bool_to_side(side) == IF side = Buy THEN "B" ELSE "S"

Prices == 0..MaxPrice
Quantities == 0..MaxQuantity
\* the prices and quantities the model's order-entry requests carry
SessionPrices == 0..MaxSessionPrice
SessionQuantities == 0..MaxSessionQuantity

\* the accounts of the configuration list handed to the Server
Usernames == {"u1", "u2"}
PasswordOf(u) == IF u = "u1" THEN "p1" ELSE "p2"
\* the user names and passwords a LoginRequest may carry
LoginNames == Usernames \cup {"ux"}
LoginPasswords == {"p1", "p2"}
\* the TCP connections the server accepts
Conns == {"c1", "c2"}

\* wire constants of the order-entry protocol
ORDER_ID_REJECTED == 0
ORDER_ID_MARKET == 0
ORDER_PRICE_MARKET == 0

VARIABLES
    orders,     \* LimitOrderBook::orders, the UID -> Order map
    sells,      \* LimitOrderBook::sells, the sell LimitTree
    buys,       \* LimitOrderBook::buys, the buy LimitTree
    sequence,   \* LimitOrderBook::sequence, the next uid
    accounts,   \* Authorizer::accounts, user name -> SystemAccount
    conns,      \* the Connection objects of the server
    feed,       \* the DataFeed::Sender handed to the book (or detached)
    cli,        \* the console: CLI<ServerCLI> and its ServerCLI handler
    wire,       \* the datagrams sent to the multicast group, not yet received
    receiver,   \* the DataFeed::Receiver of a subscriber process
    clients,    \* the OrderEntry::Client at the far end of each connection
    last        \* the last operation: its name, arguments, result and fills

vars == <<orders, sells, buys, sequence, accounts, conns, feed, cli, wire,
          receiver, clients, last>>

\* the whole program state as one record, threaded through the operators
State == [orders |-> orders, sells |-> sells, buys |-> buys,
          sequence |-> sequence, accounts |-> accounts, conns |-> conns,
          feed |-> feed, cli |-> cli, wire |-> wire, receiver |-> receiver,
          clients |-> clients, last |-> last]

Commit(r) ==
    /\ orders' = r.orders
    /\ sells' = r.sells
    /\ buys' = r.buys
    /\ sequence' = r.sequence
    /\ accounts' = r.accounts
    /\ conns' = r.conns
    /\ feed' = r.feed
    /\ cli' = r.cli
    /\ wire' = r.wire
    /\ receiver' = r.receiver
    /\ clients' = r.clients
    /\ last' = r.last

\* remove key k from function f
Without(f, k) == [x \in DOMAIN f \ {k} |-> f[x]]

\* ------------------------------------------------------------------------
\* Order, Limit, LimitTree constructors
\* ------------------------------------------------------------------------

\* Order(uid, side, quantity, price, limit, account)
Order(uid, side, quantity, price, account) ==
    [uid |-> uid, side |-> side, quantity |-> quantity, price |-> price,
     account |-> account]

\* Limit(Order*): a price level created from its first order
Limit(order) ==
    [count |-> 1, volume |-> order.quantity, queue |-> <<order.uid>>]

\* LimitTree(): an empty side of the book
EmptyTree == [limits |-> <<>>, best |-> NULL, count |-> 0, volume |-> 0]

Tree(s, side) == IF side = Sell THEN s.sells ELSE s.buys
SetTree(s, side, t) ==
    IF side = Sell THEN [s EXCEPT !.sells = t] ELSE [s EXCEPT !.buys = t]

\* ------------------------------------------------------------------------
\* DataFeed::Sender and Connection::send
\* ------------------------------------------------------------------------

\* the uids queued at the price levels of a tree
UidsIn(tree) ==
    UNION {{tree.limits[p].queue[i] : i \in 1..Len(tree.limits[p].queue)} :
                p \in DOMAIN tree.limits}

\* the resting orders of a book b (its orders map and its two trees), each
\* as uid, side, price and remaining quantity
RestingOrders(b) ==
    {[uid |-> u, side |-> b.orders[u].side, price |-> b.orders[u].price,
      quantity |-> b.orders[u].quantity] :
        u \in (UidsIn(b.sells) \cup UidsIn(b.buys)) \cap DOMAIN b.orders}

\* a market-data packet; the fields a message kind does not carry are 0.
\* book is not on the wire: it records the resting orders of the engine's
\* book at the moment the packet was produced
Packet(kind, uid, price, quantity, side) ==
    [kind |-> kind, sequence |-> 0, uid |-> uid, price |-> price,
     quantity |-> quantity, side |-> side, book |-> {}]

\* send that queues the packet and counts it without stamping it
FeedSend_Unstamped(s, packet) ==
    IF ~s.feed.attached THEN s
    ELSE [s EXCEPT !.feed.output_buffer = Append(@, packet),
                   !.feed.sequence = @ + 1]

\* Sender::send<T>(args...): stamp the packet with sequence++ and queue it.
\* The book holds a null feed pointer when it was built without a sender.
FeedSend(s, packet) ==
    IF ~s.feed.attached THEN s
    ELSE [s EXCEPT !.feed.output_buffer =
                        Append(@, [packet EXCEPT !.sequence = s.feed.sequence,
                                                 !.book = RestingOrders(s)]),
                   !.feed.sequence = @ + 1]

\* send that puts the frame at the front of the queue
Send_AtFront(s, c, frame) ==
    [s EXCEPT !.conns[c].output_buffer =
                    <<[frame EXCEPT !.sequence = s.conns[c].sequence]>> \o @,
              !.conns[c].sequence = @ + 1,
              !.conns[c].output_buffer_size = @ + 1,
              !.conns[c].writing = @ \/ s.conns[c].output_buffer_size = 0]

\* send that stamps the frame with ++sequence instead of sequence++
Send_PreIncrement(s, c, frame) ==
    [s EXCEPT !.conns[c].output_buffer =
                    Append(@, [frame EXCEPT !.sequence = s.conns[c].sequence + 1]),
              !.conns[c].sequence = @ + 1,
              !.conns[c].output_buffer_size = @ + 1,
              !.conns[c].writing = @ \/ s.conns[c].output_buffer_size = 0]

\* Connection::send<T>(args...): stamp the frame with sequence++, queue it
\* and count it in output_buffer_size.
Send(s, c, frame) ==
    [s EXCEPT !.conns[c].output_buffer =
                    Append(@, [frame EXCEPT !.sequence = s.conns[c].sequence]),
              !.conns[c].sequence = @ + 1,
              !.conns[c].output_buffer_size = @ + 1,
              !.conns[c].writing = @ \/ s.conns[c].output_buffer_size = 0]

\* an order-entry frame; the fields a message kind does not carry are 0
Frame(kind, status, order_id, new_order_id) ==
    [kind |-> kind, sequence |-> 0, status |-> status, order_id |-> order_id,
     new_order_id |-> new_order_id, price |-> 0, quantity |-> 0,
     leaves_quantity |-> 0, side |-> "-"]

\* Connection::trade(order_id, price, size, leaves_size, side)
Trade(s, c, order_id, price, size, leaves_size, side) ==
    Send(s, c, [Frame("TradeResponse", "-", order_id, 0) EXCEPT
                    !.price = price, !.quantity = size,
                    !.leaves_quantity = leaves_size, !.side = side])

\* ------------------------------------------------------------------------
\* Account and SystemAccount
\* ------------------------------------------------------------------------

\* Account::limit(order)
AccountLimit(s, a, uid) == [s EXCEPT !.accounts[a].orders = @ \cup {uid}]

\* Account::cancel(order)
AccountCancel(s, a, uid) == [s EXCEPT !.accounts[a].orders = @ \ {uid}]

\* Account::fill(side, quantity, price)
Fill(s, a, side, quantity, price) ==
    IF side = Sell
    THEN [s EXCEPT !.accounts[a].shares = @ - quantity,
                   !.accounts[a].capital = @ + quantity * price]
    ELSE [s EXCEPT !.accounts[a].shares = @ + quantity,
                   !.accounts[a].capital = @ - quantity * price]

\* the record of one Account::fill call, appended to the fills of the running
\* operation: who was booked, in which role, and for which order
Booked(s, a, role, side, quantity, price, order) ==
    [s EXCEPT !.last.fills =
        Append(@, [account |-> a, role |-> role, side |-> side,
                   quantity |-> quantity, price |-> price,
                   uid |-> order.uid, limit |-> order.price])]

\* limit_fill that forgets Account::cancel: the filled order stays in the
\* account's order set
limit_fill_KeepsOrder(s, limit, market) ==
    LET a == limit.account
        s2 == Fill(s, a, limit.side, limit.quantity, limit.price)
        s3 == Booked(s2, a, "maker", limit.side, limit.quantity, limit.price, limit)
    IN IF s3.accounts[a].handler = nullptr THEN s3
       ELSE Trade(s3, s3.accounts[a].handler, limit.uid, limit.price,
                  limit.quantity, 0, bool_to_side(limit.side))

\* limit_fill that books the fill only when a session is bound to the account
limit_fill_NeedsSession(s, limit, market) ==
    LET a == limit.account
        s1 == AccountCancel(s, a, limit.uid)
        s2 == Fill(s1, a, limit.side, limit.quantity, limit.price)
        s3 == Booked(s2, a, "maker", limit.side, limit.quantity, limit.price, limit)
    IN IF s.accounts[a].handler = nullptr
       THEN Booked(s, a, "maker", limit.side, limit.quantity, limit.price, limit)
       ELSE Trade(s3, s3.accounts[a].handler, limit.uid, limit.price,
                  limit.quantity, 0, bool_to_side(limit.side))

\* SystemAccount::limit_fill(limit, market) of account limit.account
limit_fill(s, limit, market) ==
    LET a == limit.account
        s1 == AccountCancel(s, a, limit.uid)
        s2 == Fill(s1, a, limit.side, limit.quantity, limit.price)
        s3 == Booked(s2, a, "maker", limit.side, limit.quantity, limit.price, limit)
    IN IF s3.accounts[a].handler = nullptr THEN s3
       ELSE Trade(s3, s3.accounts[a].handler, limit.uid, limit.price,
                  limit.quantity, 0, bool_to_side(limit.side))

\* SystemAccount::limit_partial(limit, market) of account limit.account
limit_partial(s, limit, market) ==
    LET a == limit.account
        s1 == Fill(s, a, limit.side, market.quantity, limit.price)
        s2 == Booked(s1, a, "maker", limit.side, market.quantity, limit.price, limit)
    IN IF s2.accounts[a].handler = nullptr THEN s2
       ELSE Trade(s2, s2.accounts[a].handler, limit.uid, limit.price,
                  market.quantity, limit.quantity, bool_to_side(limit.side))

\* market_fill that books the taker at its own price
market_fill_TakerPrice(s, limit, market) ==
    LET a == market.account
        s1 == Fill(s, a, market.side, market.quantity, market.price)
        s2 == Booked(s1, a, "taker", market.side, market.quantity, market.price, market)
    IN IF s2.accounts[a].handler = nullptr THEN s2
       ELSE Trade(s2, s2.accounts[a].handler, 0, market.price,
                  market.quantity, 0, bool_to_side(market.side))

\* SystemAccount::market_fill(limit, market) of account market.account
market_fill(s, limit, market) ==
    LET a == market.account
        s1 == Fill(s, a, market.side, market.quantity, limit.price)
        s2 == Booked(s1, a, "taker", market.side, market.quantity, limit.price, market)
    IN IF s2.accounts[a].handler = nullptr THEN s2
       ELSE Trade(s2, s2.accounts[a].handler, 0, limit.price,
                  market.quantity, 0, bool_to_side(market.side))

\* market_partial that books the taker's remaining quantity instead of the
\* quantity of the resting order it consumed
market_partial_TakerQuantity(s, limit, market) ==
    LET a == market.account
        s1 == Fill(s, a, market.side, market.quantity, limit.price)
        s2 == Booked(s1, a, "taker", market.side, market.quantity, limit.price, market)
    IN IF s2.accounts[a].handler = nullptr THEN s2
       ELSE Trade(s2, s2.accounts[a].handler, 0, limit.price,
                  market.quantity, market.quantity, bool_to_side(market.side))

\* SystemAccount::market_partial(limit, market) of account market.account
market_partial(s, limit, market) ==
    LET a == market.account
        s1 == Fill(s, a, market.side, limit.quantity, limit.price)
        s2 == Booked(s1, a, "taker", market.side, limit.quantity, limit.price, market)
    IN IF s2.accounts[a].handler = nullptr THEN s2
       ELSE Trade(s2, s2.accounts[a].handler, 0, limit.price,
                  limit.quantity, market.quantity, bool_to_side(market.side))

\* ------------------------------------------------------------------------
\* LimitTree<side>: one side of the book (limit_tree.hpp)
\* ------------------------------------------------------------------------

\* is price a better than price b on the given side (max for Buy, min for Sell)
Better(side, a, b) == IF side = Buy THEN a > b ELSE a < b

\* the extremum of a non-empty set of prices on the given side
Extremum(side, keys) ==
    CHOOSE p \in keys : \A q \in keys : q = p \/ Better(side, p, q)

\* can_match<side>(limit, market): may a taker with price `market` trade with
\* the level `limit` of this side; a taker price of 0 is a market order
can_match(side, limit, market) ==
    \/ market = ORDER_PRICE_MARKET
    \/ IF side = Buy THEN market <= limit ELSE market >= limit

\* remove element x from sequence q
SeqRemove(q, x) == SelectSeq(q, LAMBDA y : y # x)

\* LimitTree::limit that puts a new order at the head of its level
TreeLimit_AtHead(s, side, uid) ==
    LET order == s.orders[uid]
        t == Tree(s, side)
        t1 == IF order.price \notin DOMAIN t.limits
              THEN [t EXCEPT !.limits = (order.price :> Limit(order)) @@ @,
                             !.best = IF t.best = NULL \/ Better(side, order.price, t.best)
                                      THEN order.price ELSE t.best]
              ELSE [t EXCEPT !.limits[order.price] =
                        [count |-> @.count + 1,
                         volume |-> @.volume + order.quantity,
                         queue |-> <<uid>> \o @.queue]]
        t2 == [t1 EXCEPT !.count = @ + 1, !.volume = @ + order.quantity]
        s1 == AccountLimit(SetTree(s, side, t2), order.account, uid)
    IN FeedSend(s1, Packet("AddOrder", uid, order.price, order.quantity,
                         bool_to_side(order.side)))

\* LimitTree::limit(order): append the order to the level at its price,
\* creating the level (and moving best) when it is the first at that price;
\* the order enters its account's order set and an AddOrder is published
TreeLimit(s, side, uid) ==
    LET order == s.orders[uid]
        t == Tree(s, side)
        t1 == IF order.price \notin DOMAIN t.limits
              THEN [t EXCEPT !.limits = (order.price :> Limit(order)) @@ @,
                             !.best = IF t.best = NULL \/ Better(side, order.price, t.best)
                                      THEN order.price ELSE t.best]
              ELSE [t EXCEPT !.limits[order.price] =
                        [count |-> @.count + 1,
                         volume |-> @.volume + order.quantity,
                         queue |-> Append(@.queue, uid)]]
        t2 == [t1 EXCEPT !.count = @ + 1, !.volume = @ + order.quantity]
        s1 == AccountLimit(SetTree(s, side, t2), order.account, uid)
    IN FeedSend(s1, Packet("AddOrder", uid, order.price, order.quantity,
                         bool_to_side(order.side)))

\* LimitTree::remove that leaves best on the level it erased
TreeRemove_StaleBest(s, side, uid) ==
    LET order == s.orders[uid]
        t == Tree(s, side)
        level == t.limits[order.price]
        t1 == IF Len(level.queue) = 1
              THEN [t EXCEPT !.limits = Without(t.limits, order.price)]
              ELSE [t EXCEPT !.limits[order.price] =
                        [count |-> @.count - 1,
                         volume |-> @.volume - order.quantity,
                         queue |-> SeqRemove(@.queue, uid)]]
        t2 == [t1 EXCEPT !.count = @ - 1, !.volume = @ - order.quantity]
    IN SetTree(s, side, t2)

\* LimitTree::remove(order): splice the order out of its level; erase the
\* level when the order was its last one, recomputing best when the level
\* was the best one
TreeRemove(s, side, uid) ==
    LET order == s.orders[uid]
        t == Tree(s, side)
        level == t.limits[order.price]
        t1 == IF Len(level.queue) = 1
              THEN LET rest == Without(t.limits, order.price)
                   IN [t EXCEPT !.limits = rest,
                                !.best = IF t.best = order.price
                                         THEN IF DOMAIN rest = {} THEN NULL
                                              ELSE Extremum(side, DOMAIN rest)
                                         ELSE t.best]
              ELSE [t EXCEPT !.limits[order.price] =
                        [count |-> @.count - 1,
                         volume |-> @.volume - order.quantity,
                         queue |-> SeqRemove(@.queue, uid)]]
        t2 == [t1 EXCEPT !.count = @ - 1, !.volume = @ - order.quantity]
    IN SetTree(s, side, t2)

\* LimitTree::cancel(order): remove the order from the tree and from its
\* account's order set and publish a DeleteOrder
TreeCancel(s, side, uid) ==
    LET order == s.orders[uid]
        s1 == AccountCancel(TreeRemove(s, side, uid), order.account, uid)
    IN FeedSend(s1, Packet("DeleteOrder", uid, 0, 0, Sell))

\* the did_fill callback the book passes to LimitTree::market
did_fill(s, uid) == [s EXCEPT !.orders = Without(@, uid)]

\* the Trade packet published for a match against the resting order
FeedTrade(s, match, quantity) ==
    FeedSend(s, Packet("Trade", match.uid, match.price, quantity,
                       bool_to_side(match.side)))

\* LimitTree::market(order, did_fill): match the taker against the head of
\* the best level while the side is non-empty and the taker's price allows.
\* Returns the state and the taker as the loop leaves it.
RECURSIVE TreeMarket(_, _, _)
TreeMarket(s, side, order) ==
    LET t == Tree(s, side) IN
    IF t.best = NULL \/ ~can_match(side, t.best, order.price)
    THEN [s |-> s, order |-> order]
    ELSE
      LET match == s.orders[Head(t.limits[t.best].queue)] IN
      IF match.quantity >= order.quantity
      THEN IF match.quantity = order.quantity
           THEN \* the resting order and the taker are both filled
                LET s1 == TreeRemove(s, side, match.uid)
                    s2 == limit_fill(s1, match, order)
                    s3 == market_fill(s2, match, order)
                    s4 == FeedTrade(s3, match, order.quantity)
                IN [s |-> did_fill(s4, match.uid),
                    order |-> [order EXCEPT !.quantity = 0]]
           ELSE \* the resting order is partially filled, the taker is filled
                LET left == [match EXCEPT !.quantity = @ - order.quantity]
                    s1 == [s EXCEPT !.orders[match.uid] = left]
                    t1 == [t EXCEPT !.limits[match.price].volume = @ - order.quantity,
                                    !.volume = @ - order.quantity]
                    s2 == SetTree(s1, side, t1)
                    s3 == limit_partial(s2, left, order)
                    s4 == market_fill(s3, left, order)
                IN [s |-> FeedTrade(s4, match, order.quantity),
                    order |-> [order EXCEPT !.quantity = 0]]
      ELSE \* the resting order is filled, the taker is partially filled
           LET left == [order EXCEPT !.quantity = @ - match.quantity]
               s1 == TreeRemove(s, side, match.uid)
               s2 == limit_fill(s1, match, left)
               s3 == market_partial(s2, match, left)
               s4 == FeedTrade(s3, match, match.quantity)
           IN TreeMarket(did_fill(s4, match.uid), side, left)

\* ------------------------------------------------------------------------
\* LimitOrderBook
\* ------------------------------------------------------------------------

\* the crossing test with strict comparisons: a price equal to the opposite
\* best does not cross
Crosses_Strict(s, side, price) ==
    IF side = Sell
    THEN s.buys.best # NULL /\ price < s.buys.best
    ELSE s.sells.best # NULL /\ price > s.sells.best

\* does a limit order of the given side and price cross the opposite best
\* (the test of limit_sell / limit_buy before they call market)
Crosses(s, side, price) ==
    IF side = Sell
    THEN s.buys.best # NULL /\ price <= s.buys.best
    ELSE s.sells.best # NULL /\ price >= s.sells.best

\* limit that leaves a taker filled on entry in the UID map
BookLimit_KeepsFilled(s, account, side, quantity, price) ==
    LET uid == s.sequence
        order == Order(uid, side, quantity, price, account)
        s0 == [s EXCEPT !.orders = (uid :> order) @@ @]
    IN IF Crosses(s0, side, price)
       THEN LET m == TreeMarket(s0, Invert(side), order)
                s1 == [m.s EXCEPT !.orders[uid].quantity = m.order.quantity]
            IN IF m.order.quantity = 0
               THEN [s |-> s1, uid |-> 0]
               ELSE [s |-> [TreeLimit(s1, side, uid) EXCEPT !.sequence = @ + 1],
                     uid |-> uid]
       ELSE [s |-> [TreeLimit(s0, side, uid) EXCEPT !.sequence = @ + 1],
             uid |-> uid]

\* LimitOrderBook::limit_sell / limit_buy. Returns the state and the uid the
\* call returns (0 when the order was filled on entry).
BookLimit(s, account, side, quantity, price) ==
    LET uid == s.sequence
        order == Order(uid, side, quantity, price, account)
        s0 == [s EXCEPT !.orders = (uid :> order) @@ @]
    IN IF Crosses(s0, side, price)
       THEN LET m == TreeMarket(s0, Invert(side), order)
                s1 == [m.s EXCEPT !.orders[uid].quantity = m.order.quantity]
            IN IF m.order.quantity = 0
               THEN [s |-> did_fill(s1, uid), uid |-> 0]
               ELSE [s |-> [TreeLimit(s1, side, uid) EXCEPT !.sequence = @ + 1],
                     uid |-> uid]
       ELSE [s |-> [TreeLimit(s0, side, uid) EXCEPT !.sequence = @ + 1],
             uid |-> uid]

\* market that leaves what remains of the order in the UID map
BookMarket_KeepsRemainder(s, account, side, quantity) ==
    LET m == TreeMarket(s, Invert(side),
                        Order(s.sequence, side, quantity, 0, account))
    IN IF m.order.quantity = 0 THEN m.s
       ELSE [m.s EXCEPT !.orders = (s.sequence :> m.order) @@ @]

\* LimitOrderBook::market_sell / market_buy
BookMarket(s, account, side, quantity) ==
    TreeMarket(s, Invert(side),
               Order(s.sequence, side, quantity, 0, account)).s

\* LimitOrderBook::has
BookHas(s, order_id) == order_id \in DOMAIN s.orders

\* cancel that leaves the order in the UID map
BookCancel_KeepsEntry(s, order_id) ==
    TreeCancel(s, s.orders[order_id].side, order_id)

\* LimitOrderBook::cancel
BookCancel(s, order_id) ==
    did_fill(TreeCancel(s, s.orders[order_id].side, order_id), order_id)

\* reduce that forgets to take the quantity off the price level's volume
BookReduce_LevelVolume(s, order_id, quantity) ==
    LET order == s.orders[order_id]
        t == Tree(s, order.side)
        t1 == [t EXCEPT !.volume = @ - quantity]
        s1 == SetTree([s EXCEPT !.orders[order_id].quantity = @ - quantity],
                      order.side, t1)
    IN IF s1.orders[order_id].quantity = 0
       THEN did_fill(TreeCancel(s1, order.side, order_id), order_id)
       ELSE s1

\* LimitOrderBook::reduce, for quantity <= the order's quantity (the call
\* throws before changing anything otherwise)
BookReduce(s, order_id, quantity) ==
    LET order == s.orders[order_id]
        t == Tree(s, order.side)
        t1 == [t EXCEPT !.limits[order.price].volume = @ - quantity,
                        !.volume = @ - quantity]
        s1 == SetTree([s EXCEPT !.orders[order_id].quantity = @ - quantity],
                      order.side, t1)
    IN IF s1.orders[order_id].quantity = 0
       THEN did_fill(TreeCancel(s1, order.side, order_id), order_id)
       ELSE s1

\* LimitOrderBook::best_sell
best_sell(s) == IF s.sells.best = NULL THEN 0 ELSE s.sells.best

\* LimitOrderBook::best_buy
best_buy(s) == IF s.buys.best = NULL THEN 0 ELSE s.buys.best

\* ------------------------------------------------------------------------
\* The book driven through its public interface (as the unit tests drive it)
\* ------------------------------------------------------------------------

\* the record of an operation that starts: no fills yet; args holds the
\* arguments of book.limit and book.market, the user name and password of a
\* LoginRequest and the fields of a ReplaceRequest
Operation(op, c) ==
    [op |-> op, conn |-> c, args |-> <<>>, ret |-> 0, threw |-> FALSE,
     fills |-> <<>>]

Begin(s, op) == [s EXCEPT !.last = Operation(op, nullptr)]

NewAccount(u) ==
    [password |-> PasswordOf(u), shares |-> 0, capital |-> 0, orders |-> {},
     handler |-> nullptr, is_connected |-> FALSE]

\* ServerCLI's member initialiser, and CLI's constructor starting the first
\* read of the console
NewCLI == [is_session_active |-> FALSE, reading |-> TRUE]

\* DataFeed::LOB::LimitOrderBook(): the empty mirror book
NewMirror == [orders |-> <<>>, sells |-> EmptyTree, buys |-> EmptyTree]

\* Receiver's member initialisers; listening is set once the constructor
\* has joined the multicast group and started the first read
NewReceiver ==
    [listening |-> FALSE, last_sequence |-> 0, is_session_active |-> FALSE,
     book |-> NewMirror]

NewConnection ==
    [account |-> nullptr, output_buffer |-> <<>>, output_buffer_size |-> 0,
     sequence |-> 0, writing |-> FALSE, status |-> "idle"]

\* no OrderEntry::Client is at the far end of a connection: the peer is some
\* other program that speaks the protocol
NewClient ==
    [connected |-> FALSE, inbound |-> <<>>, is_authorized |-> FALSE,
     active_orders |-> {}, shares |-> 0, capital |-> 0]

\* LimitOrderBook() with no feed and plain accounts
Init ==
    /\ orders = <<>>
    /\ sells = EmptyTree
    /\ buys = EmptyTree
    /\ sequence = 1
    /\ accounts = [u \in Usernames |-> NewAccount(u)]
    /\ conns = [c \in Conns |-> NewConnection]
    /\ feed = [attached |-> FALSE, sequence |-> 1, output_buffer |-> <<>>]
    /\ cli = [NewCLI EXCEPT !.reading = FALSE]
    /\ wire = <<>>
    /\ receiver = NewReceiver
    /\ clients = [c \in Conns |-> NewClient]
    /\ last = Operation("init", nullptr)

\* book.limit(&account, side, quantity, price). The book hands out uids up
\* to cap; with taker set, one more order may enter if it is filled on entry
\* (it returns 0 and keeps no uid).
ApiLimit(cap, taker, a, side, quantity, price) ==
    LET r == BookLimit(Begin(State, "limit"), a, side, quantity, price)
    IN /\ \/ sequence <= cap
          \/ taker /\ sequence = cap + 1 /\ r.uid = 0
       /\ Commit([r.s EXCEPT !.last.ret = r.uid,
                             !.last.args = <<a, side, quantity, price>>])

\* book.market(&account, side, quantity)
ApiMarket(a, side, quantity) ==
    /\ a \in Usernames
    /\ Commit([BookMarket(Begin(State, "market"), a, side, quantity) EXCEPT
                    !.last.args = <<a, side, quantity>>])

\* book.cancel(uid) of an order in the book
ApiCancel(uid) ==
    /\ uid \in DOMAIN orders
    /\ Commit(BookCancel(Begin(State, "cancel"), uid))

\* reduce that takes what the order has when asked for more
ApiReduce_Clamps(uid, quantity) ==
    /\ uid \in DOMAIN orders
    /\ LET s == [Begin(State, "reduce") EXCEPT !.last.args = <<uid, quantity>>]
       IN IF quantity > orders[uid].quantity
          THEN Commit(BookReduce(s, uid, orders[uid].quantity))
          ELSE Commit(BookReduce(s, uid, quantity))

\* book.reduce(uid, quantity) of an order in the book; the call throws and
\* changes nothing when quantity exceeds what the order has
ApiReduce(uid, quantity) ==
    /\ uid \in DOMAIN orders
    /\ LET s == [Begin(State, "reduce") EXCEPT !.last.args = <<uid, quantity>>]
       IN IF quantity > orders[uid].quantity
          THEN Commit([s EXCEPT !.last.threw = TRUE])
          ELSE Commit(BookReduce(s, uid, quantity))

\* the book's interface with prices from P, quantities from Q and uids up to cap
ApiNext(P, Q, cap, taker) ==
    \/ \E a \in Usernames, side \in Sides, q \in Q, p \in P :
          ApiLimit(cap, taker, a, side, q, p)
    \/ \E a \in Usernames, side \in Sides, q \in Q :
          ApiMarket(a, side, q)
    \/ \E uid \in 1..cap : ApiCancel(uid)
    \/ \E uid \in 1..cap, q \in Q : ApiReduce(uid, q)

\* orders with a price and a quantity (1..MaxPrice, 1..MaxQuantity)
Next == ApiNext(Prices \ {0}, Quantities \ {0}, MaxUID, FALSE)

Spec == Init /\ [][Next]_vars

\* orders with any price and quantity the caller can pass, 0 included
NextAny == ApiNext(0..MaxAnyPrice, Quantities, MaxAnyUID, TRUE)

SpecAny == Init /\ [][NextAny]_vars

\* LimitOrderBook::clear on a book without a feed: both trees are emptied
\* (LimitTree::clear), the UID map is emptied and the next uid is 1 again; the
\* accounts are not told
BookClear(s) ==
    [s EXCEPT !.sells = EmptyTree, !.buys = EmptyTree, !.orders = <<>>,
              !.sequence = 1]

\* book.clear(); the model follows it on an empty book while no account has
\* traded (the state it leaves is then the one of a new book)
ApiClear ==
    /\ \/ orders # <<>>
       \/ \A a \in Usernames : accounts[a].shares = 0 /\ accounts[a].capital = 0
    /\ Commit(BookClear(Begin(State, "clear")))

\* the model follows the book while every Order* in an account's order set
\* points to an order of the UID map (an order set is a set of uids here,
\* which cannot tell a stale pointer from a new order with the same uid)
Tracked(call) ==
    /\ \A a \in Usernames : accounts[a].orders \subseteq DOMAIN orders
    /\ call

\* the book's interface with clear()
NextClear ==
    \/ \E a \in Usernames, side \in Sides, q \in Quantities \ {0},
          p \in Prices \ {0} :
          Tracked(ApiLimit(MaxAnyUID, FALSE, a, side, q, p))
    \/ \E a \in Usernames, side \in Sides, q \in Quantities \ {0} :
          Tracked(ApiMarket(a, side, q))
    \/ \E uid \in 1..MaxAnyUID : Tracked(ApiCancel(uid))
    \/ \E uid \in 1..MaxAnyUID, q \in Quantities \ {0} : Tracked(ApiReduce(uid, q))
    \/ ApiClear

SpecClear == Init /\ [][NextClear]_vars

\* ------------------------------------------------------------------------
\* The order-entry server: Connection handlers (connection.hpp)
\* ------------------------------------------------------------------------

\* Connection::is_logged_in
is_logged_in(s, c) == s.conns[c].account # nullptr

\* Authorizer::is_valid(username, password)
is_valid(s, username, password) ==
    /\ username \in DOMAIN s.accounts
    /\ s.accounts[username].password = password

\* logout that leaves the account's is_connected flag set
logout_KeepsConnected(s, c) ==
    LET a == s.conns[c].account IN
    IF a = nullptr THEN s
    ELSE [s EXCEPT !.accounts[a].handler = nullptr,
                   !.conns[c].account = nullptr]

\* logout that leaves the account's handler pointing at the connection
logout_KeepsHandler(s, c) ==
    LET a == s.conns[c].account IN
    IF a = nullptr THEN s
    ELSE [s EXCEPT !.accounts[a].is_connected = FALSE,
                   !.conns[c].account = nullptr]

\* Connection::logout
logout(s, c) ==
    LET a == s.conns[c].account IN
    IF a = nullptr THEN s
    ELSE [s EXCEPT !.accounts[a].is_connected = FALSE,
                   !.accounts[a].handler = nullptr,
                   !.conns[c].account = nullptr]

\* handle(LoginRequest) without the test of the account's connected flag
HandleLogin_NoSessionTest(s, c, username, password) ==
    IF is_logged_in(s, c)
    THEN Send(s, c, Frame("LoginResponse", "AlreadyAuthorized", 0, 0))
    ELSE IF ~is_valid(s, username, password)
    THEN Send(s, c, Frame("LoginResponse", "NotAuthorized", 0, 0))
    ELSE Send([s EXCEPT !.conns[c].account = username,
                        !.accounts[username].handler = c,
                        !.accounts[username].is_connected = TRUE],
              c, Frame("LoginResponse", "Accepted", 0, 0))

\* handle(LoginRequest) that tests the credentials before the session
HandleLogin_CredentialsFirst(s, c, username, password) ==
    IF ~is_valid(s, username, password)
    THEN Send(s, c, Frame("LoginResponse", "NotAuthorized", 0, 0))
    ELSE IF is_logged_in(s, c)
    THEN Send(s, c, Frame("LoginResponse", "AlreadyAuthorized", 0, 0))
    ELSE IF s.accounts[username].is_connected
    THEN Send(s, c, Frame("LoginResponse", "SessionInUse", 0, 0))
    ELSE Send([s EXCEPT !.conns[c].account = username,
                        !.accounts[username].handler = c,
                        !.accounts[username].is_connected = TRUE],
              c, Frame("LoginResponse", "Accepted", 0, 0))

\* Connection::handle(LoginRequest)
HandleLogin(s, c, username, password) ==
    IF is_logged_in(s, c)
    THEN Send(s, c, Frame("LoginResponse", "AlreadyAuthorized", 0, 0))
    ELSE IF ~is_valid(s, username, password)
    THEN Send(s, c, Frame("LoginResponse", "NotAuthorized", 0, 0))
    ELSE IF s.accounts[username].is_connected
    THEN Send(s, c, Frame("LoginResponse", "SessionInUse", 0, 0))
    ELSE Send([s EXCEPT !.conns[c].account = username,
                        !.accounts[username].handler = c,
                        !.accounts[username].is_connected = TRUE],
              c, Frame("LoginResponse", "Accepted", 0, 0))

\* Connection::handle(LogoutRequest)
HandleLogout(s, c) ==
    IF ~is_logged_in(s, c)
    THEN Send(s, c, Frame("LogoutResponse", "ProtocolViolation", 0, 0))
    ELSE Send(logout(s, c), c, Frame("LogoutResponse", "UserRequested", 0, 0))

\* handle(OrderRequest) that queues the OrderResponse before it calls the
\* book
HandleOrder_AckFirst(s, c, price, quantity, side) ==
    IF ~is_logged_in(s, c)
    THEN Send(s, c, Frame("OrderResponse", "Rejected", ORDER_ID_REJECTED, 0))
    ELSE IF price = ORDER_PRICE_MARKET
    THEN BookMarket(Send(s, c, Frame("OrderResponse", "Accepted", ORDER_ID_MARKET, 0)),
                    s.conns[c].account, side_to_LOB_side(side), quantity)
    ELSE LET uid == BookLimit(s, s.conns[c].account, side_to_LOB_side(side),
                              quantity, price).uid
             r == BookLimit(Send(s, c, Frame("OrderResponse", "Accepted", uid, 0)),
                            s.conns[c].account, side_to_LOB_side(side),
                            quantity, price)
         IN [r.s EXCEPT !.last.ret = r.uid]

\* Connection::handle(OrderRequest)
HandleOrder(s, c, price, quantity, side) ==
    IF ~is_logged_in(s, c)
    THEN Send(s, c, Frame("OrderResponse", "Rejected", ORDER_ID_REJECTED, 0))
    ELSE IF price = ORDER_PRICE_MARKET
    THEN Send(BookMarket(s, s.conns[c].account, side_to_LOB_side(side), quantity),
              c, Frame("OrderResponse", "Accepted", ORDER_ID_MARKET, 0))
    ELSE LET r == BookLimit(s, s.conns[c].account, side_to_LOB_side(side),
                            quantity, price)
         IN Send([r.s EXCEPT !.last.ret = r.uid],
                 c, Frame("OrderResponse", "Accepted", r.uid, 0))

\* handle(CancelRequest) without the test of the order's owner
HandleCancel_NoOwnerTest(s, c, order_id) ==
    IF ~is_logged_in(s, c)
    THEN Send(s, c, Frame("CancelResponse", "Rejected", order_id, 0))
    ELSE IF ~BookHas(s, order_id)
    THEN Send(s, c, Frame("CancelResponse", "Rejected", order_id, 0))
    ELSE Send(BookCancel(s, order_id),
              c, Frame("CancelResponse", "Accepted", order_id, 0))

\* handle(CancelRequest) that tests only that the order exists
HandleCancel_NoLoginTest(s, c, order_id) ==
    IF ~BookHas(s, order_id)
    THEN Send(s, c, Frame("CancelResponse", "Rejected", order_id, 0))
    ELSE Send(BookCancel(s, order_id),
              c, Frame("CancelResponse", "Accepted", order_id, 0))

\* Connection::handle(CancelRequest)
HandleCancel(s, c, order_id) ==
    IF ~is_logged_in(s, c)
    THEN Send(s, c, Frame("CancelResponse", "Rejected", order_id, 0))
    ELSE IF ~BookHas(s, order_id)
    THEN Send(s, c, Frame("CancelResponse", "Rejected", order_id, 0))
    ELSE IF s.orders[order_id].account # s.conns[c].account
    THEN Send(s, c, Frame("CancelResponse", "Rejected", order_id, 0))
    ELSE Send(BookCancel(s, order_id),
              c, Frame("CancelResponse", "Accepted", order_id, 0))

\* handle(ReplaceRequest) that rejects a request whose order is not in the
\* book, as handle(CancelRequest) does
HandleReplace_MissingRejected(s, c, order_id, price, quantity, side) ==
    IF ~is_logged_in(s, c)
    THEN Send(s, c, Frame("ReplaceResponse", "Rejected", order_id, ORDER_ID_REJECTED))
    ELSE IF ~BookHas(s, order_id)
    THEN Send(s, c, Frame("ReplaceResponse", "Rejected", order_id, ORDER_ID_REJECTED))
    ELSE IF s.orders[order_id].account # s.conns[c].account
    THEN Send(s, c, Frame("ReplaceResponse", "Rejected", order_id, ORDER_ID_REJECTED))
    ELSE LET s1 == BookCancel(s, order_id)
             r == IF side = "S"
                  THEN BookLimit(s1, s.conns[c].account, Sell, quantity, price)
                  ELSE IF side = "B"
                  THEN BookLimit(s1, s.conns[c].account, Buy, quantity, price)
                  ELSE [s |-> s1, uid |-> ORDER_ID_REJECTED]
         IN Send([r.s EXCEPT !.last.ret = r.uid],
                 c, Frame("ReplaceResponse", "Accepted", order_id, r.uid))

\* handle(ReplaceRequest) that treats another account's order like a missing
\* one: it cancels nothing and places the new order
HandleReplace_NoOwnerTest(s, c, order_id, price, quantity, side) ==
    IF ~is_logged_in(s, c)
    THEN Send(s, c, Frame("ReplaceResponse", "Rejected", order_id, ORDER_ID_REJECTED))
    ELSE LET own == BookHas(s, order_id)
                    /\ s.orders[order_id].account = s.conns[c].account
             canceled == IF own THEN order_id ELSE ORDER_ID_REJECTED
             s1 == IF own THEN BookCancel(s, order_id) ELSE s
             r == IF side = "S"
                  THEN BookLimit(s1, s.conns[c].account, Sell, quantity, price)
                  ELSE IF side = "B"
                  THEN BookLimit(s1, s.conns[c].account, Buy, quantity, price)
                  ELSE [s |-> s1, uid |-> ORDER_ID_REJECTED]
         IN Send([r.s EXCEPT !.last.ret = r.uid],
                 c, Frame("ReplaceResponse", "Accepted", canceled, r.uid))

\* Connection::handle(ReplaceRequest)
HandleReplace(s, c, order_id, price, quantity, side) ==
    IF ~is_logged_in(s, c)
    THEN Send(s, c, Frame("ReplaceResponse", "Rejected", order_id, ORDER_ID_REJECTED))
    ELSE IF BookHas(s, order_id) /\ s.orders[order_id].account # s.conns[c].account
    THEN Send(s, c, Frame("ReplaceResponse", "Rejected", order_id, ORDER_ID_REJECTED))
    ELSE LET canceled == IF BookHas(s, order_id) THEN order_id ELSE ORDER_ID_REJECTED
             s1 == IF BookHas(s, order_id) THEN BookCancel(s, order_id) ELSE s
             \* switch (request.side): a byte that is neither 'S' nor 'B'
             \* places no order and leaves uid at ORDER_ID_REJECTED
             r == IF side = "S"
                  THEN BookLimit(s1, s.conns[c].account, Sell, quantity, price)
                  ELSE IF side = "B"
                  THEN BookLimit(s1, s.conns[c].account, Buy, quantity, price)
                  ELSE [s |-> s1, uid |-> ORDER_ID_REJECTED]
         IN Send([r.s EXCEPT !.last.ret = r.uid],
                 c, Frame("ReplaceResponse", "Accepted", canceled, r.uid))

\* the orders in which std::set<Order*> may iterate the order set S: the set
\* is sorted by the orders' addresses in the book's unordered_map
Iterations(S) ==
    {q \in [1..Cardinality(S) -> S] : \A u \in S : \E i \in DOMAIN q : q[i] = u}

\* a purge that cancels the first order of the set and stops
PurgeLoop_FirstOnly(s, q) ==
    IF q = <<>> THEN s ELSE BookCancel(s, Head(q))

\* the loop of Connection::handle(PurgeRequest): cancel the first order of
\* the account's order set until the set is empty; q is the set's iteration
\* order
RECURSIVE PurgeLoop(_, _)
PurgeLoop(s, q) ==
    IF q = <<>> THEN s
    ELSE PurgeLoop(BookCancel(s, Head(q)), Tail(q))

\* Connection::handle(PurgeRequest), q the iteration order of the account's
\* order set
HandlePurge(s, c, q) ==
    IF ~is_logged_in(s, c)
    THEN Send(s, c, Frame("PurgeResponse", "Rejected", 0, 0))
    ELSE Send(PurgeLoop(s, q), c, Frame("PurgeResponse", "Accepted", 0, 0))

\* Connection::handle(Header): a frame of an unknown kind
HandleHeader(s, c) ==
    Send(logout(s, c), c, Frame("LogoutResponse", "ProtocolViolation", 0, 0))

\* ------------------------------------------------------------------------
\* The server as a state machine: one action per completion handler
\* ------------------------------------------------------------------------

\* the request starts on connection c
Request(op, c) == [State EXCEPT !.last = Operation(op, c)]

\* the model follows the server while it has handed out at most
\* MaxSessionUID uids and no connection has emitted more than MaxFrames frames
Bounded(r) ==
    /\ r.sequence <= MaxSessionUID + 1
    /\ \A c \in Conns : r.conns[c].sequence <= MaxFrames

\* the model delivers a request while at most MaxBacklog frames or packets
\* wait in each output buffer
Drained ==
    /\ \A c \in Conns : conns[c].output_buffer_size <= MaxBacklog
    /\ Len(feed.output_buffer) <= MaxBacklog

\* the objects main (main/venue/server.cpp) builds before context.run(): a
\* DataFeed::Sender, a book on that feed, a Server with the configured accounts
Started ==
    [orders |-> <<>>, sells |-> EmptyTree, buys |-> EmptyTree, sequence |-> 1,
     accounts |-> [u \in Usernames |-> NewAccount(u)],
     conns |-> [c \in Conns |-> NewConnection],
     feed |-> [attached |-> TRUE, sequence |-> 1, output_buffer |-> <<>>],
     cli |-> NewCLI,
     wire |-> <<>>,
     receiver |-> NewReceiver,
     clients |-> [c \in Conns |-> NewClient],
     last |-> Operation("init", nullptr)]

InitServer ==
    /\ orders = Started.orders
    /\ sells = Started.sells
    /\ buys = Started.buys
    /\ sequence = Started.sequence
    /\ accounts = Started.accounts
    /\ conns = Started.conns
    /\ feed = Started.feed
    /\ cli = Started.cli
    /\ wire = Started.wire
    /\ receiver = Started.receiver
    /\ clients = Started.clients
    /\ last = Started.last

\* an exception leaves context.run(): main's catch block prints it and the
\* process returns, its book, accounts, feed and connections are destroyed;
\* the datagrams already sent and the subscriber process are not affected
Exited(op, c) ==
    [Started EXCEPT !.conns = [k \in Conns |-> [NewConnection EXCEPT !.status = "closed"]],
                    !.feed.attached = FALSE,
                    !.cli.reading = FALSE,
                    !.wire = wire,
                    !.receiver = receiver,
                    !.clients = clients,
                    !.last = [Operation(op, c) EXCEPT !.threw = TRUE]]

\* Server::accept handler: the connection starts its read loop
Accept(c) ==
    /\ conns[c].status = "idle"
    /\ Commit([Request("Accept", c) EXCEPT !.conns[c].status = "open"])

\* Server::accept handler with an error code: throws
AcceptError(c) ==
    /\ conns[c].status = "idle"
    /\ Commit(Exited("AcceptError", c))

\* the read handler of an open connection received a frame of the given kind
Receive(c, r) ==
    /\ conns[c].status = "open"
    /\ Drained
    /\ Bounded(r)
    /\ Commit(r)

LoginRequest(c, username, password) ==
    Receive(c, HandleLogin([Request("LoginRequest", c) EXCEPT
                                !.last.args = <<username, password>>],
                           c, username, password))

LogoutRequest(c) ==
    Receive(c, HandleLogout(Request("LogoutRequest", c), c))

OrderRequest(c, price, quantity, side) ==
    Receive(c, HandleOrder(Request("OrderRequest", c), c, price, quantity, side))

CancelRequest(c, order_id) ==
    Receive(c, HandleCancel(Request("CancelRequest", c), c, order_id))

ReplaceRequest(c, order_id, price, quantity, side) ==
    Receive(c, HandleReplace([Request("ReplaceRequest", c) EXCEPT
                                  !.last.args = <<order_id, price, quantity, side>>],
                             c, order_id, price, quantity, side))

PurgeRequest(c) ==
    \E q \in Iterations(IF conns[c].account = nullptr THEN {}
                         ELSE accounts[conns[c].account].orders) :
        Receive(c, HandlePurge(Request("PurgeRequest", c), c, q))

UnknownRequest(c) ==
    Receive(c, HandleHeader(Request("UnknownRequest", c), c))

\* the read handler got asio::error::eof: logout, no further read is
\* started, and the handler's shared pointer, the last one, lets go of the
\* Connection: its socket and output buffer are destroyed
Eof(c) ==
    /\ conns[c].status = "open"
    /\ Commit([logout(Request("Eof", c), c) EXCEPT
                    !.conns[c] = [NewConnection EXCEPT !.status = "closed"]])

\* the read handler got another error: throws
ReadError(c) ==
    /\ conns[c].status = "open"
    /\ Commit(Exited("ReadError", c))

\* the write handler of write_buffer completed without error: pop the frame,
\* write the next one if there is one. The frame is on its way to the peer;
\* the model keeps it when the peer is an OrderEntry::Client.
WriteDone(c) ==
    /\ conns[c].writing
    /\ Commit([Request("WriteDone", c) EXCEPT
                    !.conns[c].output_buffer = Tail(@),
                    !.conns[c].output_buffer_size = @ - 1,
                    !.conns[c].writing = conns[c].output_buffer_size - 1 # 0,
                    !.clients[c].inbound =
                        IF clients[c].connected
                        THEN Append(@, Head(conns[c].output_buffer)) ELSE @])

\* the write handler of write_buffer completed with an error: it prints the
\* error and returns, no write is started
WriteError(c) ==
    /\ conns[c].writing
    /\ Commit([Request("WriteError", c) EXCEPT !.conns[c].writing = FALSE])

\* the send handler of Sender::send_message completed without error: the
\* datagram left for the multicast group, where a listening subscriber's
\* socket will get it
FeedSent ==
    /\ feed.output_buffer # <<>>
    /\ Commit([Request("FeedSent", nullptr) EXCEPT
                    !.feed.output_buffer = Tail(@),
                    !.wire = IF receiver.listening
                             THEN Append(@, Head(feed.output_buffer)) ELSE @])

\* the send handler of Sender::send_message completed with an error: throws
FeedError ==
    /\ feed.output_buffer # <<>>
    /\ Commit(Exited("FeedError", nullptr))

\* the model follows the publisher while it has emitted at most MaxPackets
\* packets
Published(r) == r.feed.sequence <= MaxPackets + 1

\* a line of the console reaches ServerCLI::parse
Command(r) ==
    /\ cli.reading
    /\ Drained
    /\ Published(r)
    /\ Commit(r)

\* ServerCLI::start_of_session: the line "start"
start_of_session ==
    Command(IF cli.is_session_active THEN Request("start_of_session", nullptr)
            ELSE [FeedSend(Request("start_of_session", nullptr),
                           Packet("StartOfSession", 0, 0, 0, Sell))
                    EXCEPT !.cli.is_session_active = TRUE])

\* ServerCLI::end_of_session: the line "end"
end_of_session ==
    Command(IF ~cli.is_session_active THEN Request("end_of_session", nullptr)
            ELSE [FeedSend(Request("end_of_session", nullptr),
                           Packet("EndOfSession", 0, 0, 0, Sell))
                    EXCEPT !.cli.is_session_active = FALSE])

\* ServerCLI::parse of any other line: prints "invalid command"
invalid_command == Command(Request("invalid_command", nullptr))

\* the read handler of CLI::read_command_line got an error: it prints the
\* error and returns, no further line is read
CommandError ==
    /\ cli.reading
    /\ Commit([Request("CommandError", nullptr) EXCEPT !.cli.reading = FALSE])

\* the handlers the running server dispatches; a replacement order carries
\* the quantity MaxSessionQuantity, and the error branch of the write handler
\* is a step of SpecLogin
NextServer ==
    \/ \E c \in Conns : Accept(c)
    \/ \E c \in Conns, u \in LoginNames, pw \in LoginPasswords :
          LoginRequest(c, u, pw)
    \/ \E c \in Conns : LogoutRequest(c)
    \/ \E c \in Conns, p \in SessionPrices, q \in SessionQuantities,
          side \in WireSides :
          OrderRequest(c, p, q, side)
    \/ \E c \in Conns, uid \in 0..MaxSessionUID : CancelRequest(c, uid)
    \/ \E c \in Conns, uid \in 0..MaxSessionUID, p \in SessionPrices,
          side \in WireSides :
          ReplaceRequest(c, uid, p, MaxSessionQuantity, side)
    \/ \E c \in Conns : PurgeRequest(c)
    \/ \E c \in Conns : UnknownRequest(c)
    \/ \E c \in Conns : AcceptError(c)
    \/ \E c \in Conns : Eof(c)
    \/ \E c \in Conns : ReadError(c)
    \/ \E c \in Conns : WriteDone(c)
    \/ FeedSent
    \/ FeedError

SpecServer == InitServer /\ [][NextServer]_vars

\* a call of the running server's book, delivered like a request
Publish(call) ==
    /\ Drained
    /\ feed.attached
    /\ call
    /\ Published([feed |-> feed'])

\* the publisher and its two writers, the book (called as the handlers call
\* it) and the console, followed while the publisher has emitted at most
\* MaxPackets packets
NextFeed ==
    \/ \E a \in Usernames, side \in Sides, q \in Quantities \ {0},
          p \in Prices \ {0} :
          Publish(ApiLimit(MaxSessionUID, TRUE, a, side, q, p))
    \/ \E a \in Usernames, side \in Sides, q \in Quantities \ {0} :
          Publish(ApiMarket(a, side, q))
    \/ \E uid \in 1..MaxSessionUID : Publish(ApiCancel(uid))
    \/ \E uid \in 1..MaxSessionUID, q \in Quantities \ {0} :
          Publish(ApiReduce(uid, q))
    \/ FeedSent
    \/ FeedError
    \/ start_of_session
    \/ end_of_session
    \/ invalid_command
    \/ CommandError

SpecFeed == InitServer /\ [][NextFeed]_vars

\* the read handler received a frame while earlier responses may still wait
\* in the output buffers
Deliver(c, r) ==
    /\ conns[c].status = "open"
    /\ Bounded(r)
    /\ Commit(r)

\* the sessions' logins and logouts, with the output buffers left to fill
NextLogin ==
    \/ \E c \in Conns : Accept(c)
    \/ \E c \in Conns, u \in Usernames, pw \in LoginPasswords :
          Deliver(c, HandleLogin([Request("LoginRequest", c) EXCEPT
                                     !.last.args = <<u, pw>>], c, u, pw))
    \/ \E c \in Conns :
          Deliver(c, HandleLogout(Request("LogoutRequest", c), c))
    \/ \E c \in Conns : AcceptError(c)
    \/ \E c \in Conns : Eof(c)
    \/ \E c \in Conns : ReadError(c)
    \/ \E c \in Conns : WriteDone(c)
    \/ \E c \in Conns : WriteError(c)

SpecLogin == InitServer /\ [][NextLogin]_vars

\* ------------------------------------------------------------------------
\* The order-entry client (order_entry/client.hpp)
\* ------------------------------------------------------------------------

\* Client::handle(LoginResponse)
ClientLogin(r, c, response) ==
    IF response.status \in {"Accepted", "AlreadyAuthorized"}
    THEN [r EXCEPT !.clients[c].is_authorized = TRUE]
    ELSE IF response.status \in {"NotAuthorized", "SessionInUse"}
    THEN [r EXCEPT !.clients[c].is_authorized = FALSE]
    ELSE r

\* Client::handle(LogoutResponse)
ClientLogout(r, c, response) ==
    [r EXCEPT !.clients[c].is_authorized = FALSE,
              !.clients[c].active_orders = {}]

\* Client::handle(OrderResponse)
ClientOrder(r, c, response) ==
    IF response.status = "Rejected" THEN r
    ELSE IF response.order_id = 0 THEN r
    ELSE [r EXCEPT !.clients[c].active_orders = @ \cup {response.order_id}]

\* Client::handle(CancelResponse)
ClientCancel(r, c, response) ==
    IF response.status = "Rejected" THEN r
    ELSE [r EXCEPT !.clients[c].active_orders = @ \ {response.order_id}]

\* Client::handle(ReplaceResponse): the frame's order_id is the canceled
\* order
ClientReplace(r, c, response) ==
    IF response.status = "Rejected" THEN r
    ELSE [r EXCEPT !.clients[c].active_orders =
                (IF response.order_id # 0 THEN @ \ {response.order_id} ELSE @)
                \cup (IF response.new_order_id # 0
                      THEN {response.new_order_id} ELSE {})]

\* Client::handle(PurgeResponse)
ClientPurge(r, c, response) ==
    IF response.status = "Rejected" THEN r
    ELSE [r EXCEPT !.clients[c].active_orders = {}]

\* Client::handle(TradeResponse)
ClientTrade(r, c, response) ==
    LET r1 == IF response.side = "S"
              THEN [r EXCEPT !.clients[c].shares = @ - response.quantity,
                             !.clients[c].capital =
                                    @ + response.quantity * response.price]
              ELSE IF response.side = "B"
              THEN [r EXCEPT !.clients[c].shares = @ + response.quantity,
                             !.clients[c].capital =
                                    @ - response.quantity * response.price]
              ELSE r
    IN IF response.order_id # 0 /\ response.leaves_quantity = 0
       THEN [r1 EXCEPT !.clients[c].active_orders = @ \ {response.order_id}]
       ELSE r1

\* the switch of Client::read_buffer's handler on the frame's message id
ClientHandle(r, c, message) ==
    CASE message.kind = "LoginResponse" -> ClientLogin(r, c, message)
      [] message.kind = "LogoutResponse" -> ClientLogout(r, c, message)
      [] message.kind = "OrderResponse" -> ClientOrder(r, c, message)
      [] message.kind = "CancelResponse" -> ClientCancel(r, c, message)
      [] message.kind = "ReplaceResponse" -> ClientReplace(r, c, message)
      [] message.kind = "PurgeResponse" -> ClientPurge(r, c, message)
      [] message.kind = "TradeResponse" -> ClientTrade(r, c, message)

\* the handler of Client::read_buffer got a frame: start the next read and
\* handle the frame
ClientRead(c) ==
    /\ clients[c].connected
    /\ clients[c].inbound # <<>>
    /\ Commit(ClientHandle([Request("ClientRead", c) EXCEPT
                                !.clients[c].inbound = Tail(@)],
                           c, Head(clients[c].inbound)))

\* main has built the server's objects and a Client has connected on each
\* connection (Client::Client: asio::connect, read_buffer); the server's
\* accept handlers have not run yet
InitClient ==
    /\ orders = Started.orders
    /\ sells = Started.sells
    /\ buys = Started.buys
    /\ sequence = Started.sequence
    /\ accounts = Started.accounts
    /\ conns = Started.conns
    /\ feed = Started.feed
    /\ cli = Started.cli
    /\ wire = Started.wire
    /\ receiver = Started.receiver
    /\ clients = [c \in Conns |-> [NewClient EXCEPT !.connected = TRUE]]
    /\ last = Started.last

\* the model lets the server handle a request while each client has at most
\* MaxUnread frames left to handle
Attended(call) ==
    /\ \A c \in Conns : Len(clients[c].inbound) <= MaxUnread
    /\ call

\* the server with an OrderEntry::Client on each connection, followed while
\* the connections stay up, no read or write fails and no session ends
NextStay ==
    \/ \E c \in Conns : Accept(c)
    \/ \E c \in Conns, u \in LoginNames, pw \in LoginPasswords :
          Attended(LoginRequest(c, u, pw))
    \/ \E c \in Conns, p \in SessionPrices, q \in SessionQuantities,
          side \in WireSides :
          Attended(OrderRequest(c, p, q, side))
    \/ \E c \in Conns, uid \in 0..MaxSessionUID :
          Attended(CancelRequest(c, uid))
    \/ \E c \in Conns, uid \in 0..MaxSessionUID, p \in SessionPrices,
          side \in WireSides :
          Attended(ReplaceRequest(c, uid, p, MaxSessionQuantity, side))
    \/ \E c \in Conns : Attended(PurgeRequest(c))
    \/ \E c \in Conns : WriteDone(c)
    \/ FeedSent
    \/ \E c \in Conns : ClientRead(c)

SpecStay == InitClient /\ [][NextStay]_vars

\* the same, with sessions that end by a LogoutRequest or by a frame of an
\* unknown kind
NextClient ==
    \/ NextStay
    \/ \E c \in Conns : Attended(LogoutRequest(c))
    \/ \E c \in Conns : Attended(UnknownRequest(c))

SpecClient == InitClient /\ [][NextClient]_vars

\* ------------------------------------------------------------------------
\* The subscriber's mirror book (data_feed/limit_order_book)
\* ------------------------------------------------------------------------

\* DataFeed::LOB::Order(uid, side, quantity, price)
MirrorOrder(uid, side, quantity, price) ==
    [uid |-> uid, side |-> side, quantity |-> quantity, price |-> price]

\* DataFeed::LOB::LimitTree::limit(order): append the order to the level at
\* its price, creating the level (and moving best) when it is the first
MirrorTreeLimit(b, side, uid) ==
    LET order == b.orders[uid]
        t == Tree(b, side)
        t1 == IF order.price \notin DOMAIN t.limits
              THEN [t EXCEPT !.limits = (order.price :> Limit(order)) @@ @,
                             !.best = IF t.best = NULL \/ Better(side, order.price, t.best)
                                      THEN order.price ELSE t.best]
              ELSE [t EXCEPT !.limits[order.price] =
                        [count |-> @.count + 1,
                         volume |-> @.volume + order.quantity,
                         queue |-> Append(@.queue, uid)]]
    IN SetTree(b, side, [t1 EXCEPT !.count = @ + 1, !.volume = @ + order.quantity])

\* DataFeed::LOB::LimitTree::cancel(order): splice the order out of its
\* level, erase the level when it was the last one, recomputing best
MirrorTreeCancel(b, side, uid) ==
    LET order == b.orders[uid]
        t == Tree(b, side)
        level == t.limits[order.price]
        t1 == IF Len(level.queue) = 1
              THEN LET rest == Without(t.limits, order.price)
                   IN [t EXCEPT !.limits = rest,
                                !.best = IF t.best = order.price
                                         THEN IF DOMAIN rest = {} THEN NULL
                                              ELSE Extremum(side, DOMAIN rest)
                                         ELSE t.best]
              ELSE [t EXCEPT !.limits[order.price] =
                        [count |-> @.count - 1,
                         volume |-> @.volume - order.quantity,
                         queue |-> SeqRemove(@.queue, uid)]]
    IN SetTree(b, side, [t1 EXCEPT !.count = @ - 1, !.volume = @ - order.quantity])

\* DataFeed::LOB::LimitTree::market(order, did_fill): match the taker
\* against the head of the best level while the side is non-empty and the
\* taker's price allows; did_fill erases a filled resting order from the map.
\* Returns the book and the taker as the loop leaves it.
RECURSIVE MirrorTreeMarket(_, _, _)
MirrorTreeMarket(b, side, order) ==
    LET t == Tree(b, side) IN
    IF t.best = NULL \/ ~can_match(side, t.best, order.price)
    THEN [b |-> b, order |-> order]
    ELSE
      LET match == b.orders[Head(t.limits[t.best].queue)] IN
      IF match.quantity >= order.quantity
      THEN IF match.quantity = order.quantity
           THEN [b |-> [MirrorTreeCancel(b, side, match.uid) EXCEPT
                            !.orders = Without(@, match.uid)],
                 order |-> [order EXCEPT !.quantity = 0]]
           ELSE [b |-> SetTree([b EXCEPT !.orders[match.uid].quantity =
                                            @ - order.quantity],
                               side,
                               [t EXCEPT !.limits[match.price].volume =
                                            @ - order.quantity,
                                         !.volume = @ - order.quantity]),
                 order |-> [order EXCEPT !.quantity = 0]]
      ELSE MirrorTreeMarket([MirrorTreeCancel(b, side, match.uid) EXCEPT
                                !.orders = Without(@, match.uid)],
                            side,
                            [order EXCEPT !.quantity = @ - match.quantity])

\* DataFeed::LOB::LimitOrderBook::limit (limit_sell, limit_buy): emplace the
\* order under the uid of the packet (an existing entry is kept), match it
\* when it crosses the opposite best, rest what is left
MirrorLimit(b, side, order_id, quantity, price) ==
    LET b1 == IF order_id \in DOMAIN b.orders THEN b
              ELSE [b EXCEPT !.orders =
                        (order_id :> MirrorOrder(order_id, side, quantity, price)) @@ @]
        best == Tree(b1, Invert(side)).best
    IN IF best # NULL /\ (IF side = Sell THEN price <= best ELSE price >= best)
       THEN LET m == MirrorTreeMarket(b1, Invert(side), b1.orders[order_id])
                b2 == [m.b EXCEPT !.orders[order_id] = m.order]
            IN IF m.order.quantity = 0
               THEN [b2 EXCEPT !.orders = Without(@, order_id)]
               ELSE MirrorTreeLimit(b2, side, order_id)
       ELSE MirrorTreeLimit(b1, side, order_id)

\* DataFeed::LOB::LimitOrderBook::cancel
MirrorCancel(b, order_id) ==
    [MirrorTreeCancel(b, b.orders[order_id].side, order_id) EXCEPT
        !.orders = Without(@, order_id)]

\* reduce that keeps an order whose quantity reached 0
MirrorReduce_KeepsEmpty(b, order_id, quantity) ==
    LET order == b.orders[order_id]
        t == Tree(b, order.side)
    IN SetTree([b EXCEPT !.orders[order_id].quantity = @ - quantity],
               order.side,
               [t EXCEPT !.limits[order.price].volume = @ - quantity,
                         !.volume = @ - quantity])

\* DataFeed::LOB::LimitOrderBook::reduce, for quantity <= the order's
\* quantity (the call throws before changing anything otherwise)
MirrorReduce(b, order_id, quantity) ==
    LET order == b.orders[order_id]
        t == Tree(b, order.side)
        b1 == SetTree([b EXCEPT !.orders[order_id].quantity = @ - quantity],
                      order.side,
                      [t EXCEPT !.limits[order.price].volume = @ - quantity,
                                !.volume = @ - quantity])
    IN IF b1.orders[order_id].quantity = 0
       THEN MirrorCancel(b1, order_id)
       ELSE b1

\* ------------------------------------------------------------------------
\* The market-data subscriber (data_feed/receiver.hpp)
\* ------------------------------------------------------------------------

\* an exception leaves the subscriber's context.run(): its process ends
Stopped(r) == [r EXCEPT !.receiver.listening = FALSE, !.last.threw = TRUE]

\* handle that treats a delete or a trade of an unknown uid as fatal
Handle_UnknownStops(r, packet) ==
    LET book == r.receiver.book IN
    CASE packet.kind = "StartOfSession" ->
            [r EXCEPT !.receiver.is_session_active = TRUE]
      [] packet.kind = "EndOfSession" ->
            [r EXCEPT !.receiver.is_session_active = FALSE]
      [] packet.kind = "Clear" ->
            [r EXCEPT !.receiver.book = NewMirror]
      [] packet.kind = "AddOrder" ->
            [r EXCEPT !.receiver.book =
                MirrorLimit(book, side_to_LOB_side(packet.side), packet.uid,
                            packet.quantity, packet.price)]
      [] packet.kind = "DeleteOrder" ->
            IF packet.uid \notin DOMAIN book.orders THEN Stopped(r)
            ELSE [r EXCEPT !.receiver.book = MirrorCancel(book, packet.uid)]
      [] packet.kind = "Trade" ->
            IF packet.uid \notin DOMAIN book.orders THEN Stopped(r)
            ELSE IF packet.quantity > book.orders[packet.uid].quantity
                 THEN Stopped(r)
                 ELSE [r EXCEPT !.receiver.book =
                            MirrorReduce(book, packet.uid, packet.quantity)]
      [] OTHER -> Stopped(r)

\* Receiver::handle(message), by the kind of the packet
Handle(r, packet) ==
    LET book == r.receiver.book IN
    CASE packet.kind = "StartOfSession" ->
            [r EXCEPT !.receiver.is_session_active = TRUE]
      [] packet.kind = "EndOfSession" ->
            [r EXCEPT !.receiver.is_session_active = FALSE]
      [] packet.kind = "Clear" ->
            [r EXCEPT !.receiver.book = NewMirror]
      [] packet.kind = "AddOrder" ->
            [r EXCEPT !.receiver.book =
                MirrorLimit(book, side_to_LOB_side(packet.side), packet.uid,
                            packet.quantity, packet.price)]
      [] packet.kind = "DeleteOrder" ->
            IF packet.uid \notin DOMAIN book.orders THEN r
            ELSE [r EXCEPT !.receiver.book = MirrorCancel(book, packet.uid)]
      [] packet.kind = "Trade" ->
            IF packet.uid \notin DOMAIN book.orders THEN r
            ELSE IF packet.quantity > book.orders[packet.uid].quantity
                 THEN Stopped(r)
                 ELSE [r EXCEPT !.receiver.book =
                            MirrorReduce(book, packet.uid, packet.quantity)]
      [] OTHER -> Stopped(r)

\* the receive handler that keeps its own count when a packet is out of
\* sequence
ReadMessage_KeepsCount(r, packet) ==
    LET expected == r.receiver.last_sequence + 1
    IN Handle([r EXCEPT !.receiver.last_sequence = expected,
                        !.last.args = <<packet>>,
                        !.last.ret = IF packet.sequence # expected THEN 1 ELSE 0],
              packet)

\* the receive handler of Receiver::read_message for a datagram read without
\* error: a packet whose sequence is not ++last_sequence is reported on
\* stderr (last.ret = 1) and its sequence adopted, then the packet is handled
ReadMessage(r, packet) ==
    LET expected == r.receiver.last_sequence + 1
    IN Handle([r EXCEPT !.receiver.last_sequence = packet.sequence,
                        !.last.args = <<packet>>,
                        !.last.ret = IF packet.sequence # expected THEN 1 ELSE 0],
              packet)

\* the datagrams in flight without the i-th
Rest(i) == SubSeq(wire, 1, i - 1) \o SubSeq(wire, i + 1, Len(wire))

\* the subscriber's socket hands the i-th datagram in flight to the receive
\* handler (i > 1: the network reordered it)
ReceivePacket(i) ==
    /\ receiver.listening
    /\ i \in 1..Len(wire)
    /\ Commit(ReadMessage([Request("ReceivePacket", nullptr) EXCEPT !.wire = Rest(i)],
                          wire[i]))

\* the network loses the i-th datagram in flight
Lost(i) ==
    /\ i \in 1..Len(wire)
    /\ Commit([Request("Lost", nullptr) EXCEPT !.wire = Rest(i)])

\* the receive handler got an error: it throws
ReceiveError ==
    /\ receiver.listening
    /\ Commit(Stopped(Request("ReceiveError", nullptr)))

\* the venue running with one subscriber that joined the group before the
\* first packet was sent
InitMirror ==
    /\ orders = Started.orders
    /\ sells = Started.sells
    /\ buys = Started.buys
    /\ sequence = Started.sequence
    /\ accounts = Started.accounts
    /\ conns = Started.conns
    /\ feed = Started.feed
    /\ cli = Started.cli
    /\ wire = Started.wire
    /\ receiver = [NewReceiver EXCEPT !.listening = TRUE]
    /\ clients = Started.clients
    /\ last = Started.last

\* the model lets the publisher emit while at most MaxInFlight datagrams are
\* in flight
Emit(call) ==
    /\ Len(wire) <= MaxInFlight
    /\ call

\* what the venue's request handlers make the publisher emit (book.limit,
\* book.market, book.cancel) with prices from P and quantities from Q; the
\* account of an order does not reach the feed, so one account places them all
Publisher(P, Q) ==
    \/ \E side \in Sides, q \in Q, p \in P :
          Emit(Publish(ApiLimit(MaxSessionUID, TRUE, "u1", side, q, p)))
    \/ \E side \in Sides, q \in Q : Emit(Publish(ApiMarket("u1", side, q)))
    \/ \E uid \in 1..MaxSessionUID : Emit(Publish(ApiCancel(uid)))
    \/ FeedSent
    \/ FeedError

\* the publisher, the console and a subscriber on a network that delivers
\* every datagram once and in the order sent
NextMirror ==
    \/ Publisher(Prices \ {0}, Quantities \ {0})
    \/ Emit(start_of_session)
    \/ Emit(end_of_session)
    \/ ReceivePacket(1)
    \/ ReceiveError

SpecMirror == InitMirror /\ [][NextMirror]_vars

\* the publisher and a subscriber on a network that may lose datagrams and
\* deliver them in any order
NextDatagram ==
    \/ Publisher({MaxSessionPrice}, Quantities \ {0})
    \/ \E i \in 1..MaxDatagrams : ReceivePacket(i)
    \/ \E i \in 1..MaxDatagrams : Lost(i)
    \/ ReceiveError

SpecDatagram == InitMirror /\ [][NextDatagram]_vars

\* ------------------------------------------------------------------------
\* Observations used by the properties
\* ------------------------------------------------------------------------

RECURSIVE SumSet(_, _)
\* the sum of f[x] over the finite set S
SumSet(S, f) ==
    IF S = {} THEN 0
    ELSE LET x == CHOOSE y \in S : TRUE IN f[x] + SumSet(S \ {x}, f)

RECURSIVE SumSeq(_, _)
\* the sum of f[q[i]] over the sequence q
SumSeq(q, f) == IF q = <<>> THEN 0 ELSE f[Head(q)] + SumSeq(Tail(q), f)

\* the uids resting in the book on one side, read from the UID map
Resting(side) == {u \in DOMAIN orders : orders[u].side = side}

\* the tree of one side
TreeOf(side) == IF side = Sell THEN sells ELSE buys

\* the fills of the last operation come in pairs: maker booking, taker booking
Matches == 1..(Len(last.fills) \div 2)
MakerOf(k) == last.fills[2 * k - 1]
TakerOf(k) == last.fills[2 * k]

\* ------------------------------------------------------------------------
\* C1
\* ------------------------------------------------------------------------

\* C1: after every book operation, when both sides hold orders the best buy
\* price is strictly below the best sell price, and no resting buy order is
\* priced at or above any resting sell order.
C1_NoRestingCross ==
    /\ (Resting(Buy) # {} /\ Resting(Sell) # {}) =>
            /\ buys.best # NULL /\ sells.best # NULL
            /\ best_buy(State) < best_sell(State)
    /\ \A b \in Resting(Buy), a \in Resting(Sell) :
            orders[b].price < orders[a].price

\* a limit order crossed, traded, and left both sides of the book non-empty
C1_Witness ==
    /\ last.op = "limit"
    /\ last.fills # <<>>
    /\ last.ret # 0
    /\ Resting(Buy) # {} /\ Resting(Sell) # {}

\* ------------------------------------------------------------------------
\* C2
\* ------------------------------------------------------------------------

\* C2: the shares and the capital summed over all accounts never change
\* (they stay at their initial 0), and every match is booked twice, once on
\* the maker's account and once on the taker's, for the same quantity and
\* price and on opposite sides.
C2_Conservation ==
    /\ SumSet(Usernames, [u \in Usernames |-> accounts[u].shares]) = 0
    /\ SumSet(Usernames, [u \in Usernames |-> accounts[u].capital]) = 0
    /\ Len(last.fills) = 2 * Cardinality(Matches)
    /\ \A k \in Matches :
            /\ MakerOf(k).role = "maker" /\ TakerOf(k).role = "taker"
            /\ MakerOf(k).quantity = TakerOf(k).quantity
            /\ MakerOf(k).price = TakerOf(k).price
            /\ MakerOf(k).side = Invert(TakerOf(k).side)

\* an operation matched two resting orders and moved shares between accounts
C2_Witness ==
    /\ Len(last.fills) >= 4
    /\ \E u \in Usernames : accounts[u].shares # 0 /\ accounts[u].capital # 0

\* ------------------------------------------------------------------------
\* C3
\* ------------------------------------------------------------------------

\* C3: every match is booked, on the maker and on the taker, at the resting
\* order's price, whatever the incoming order's price.
C3_MakerPrice ==
    \A k \in Matches :
        /\ MakerOf(k).price = MakerOf(k).limit
        /\ TakerOf(k).price = MakerOf(k).limit

\* a crossing limit order traded against a resting order priced strictly
\* better than the incoming order's own limit
C3_Witness ==
    /\ last.op = "limit"
    /\ \E k \in Matches :
            /\ TakerOf(k).limit # MakerOf(k).limit
            /\ TakerOf(k).quantity > 0

\* ------------------------------------------------------------------------
\* C4
\* ------------------------------------------------------------------------

\* did the step fill (wholly or in part) the order that rested under uid u
Touched(u) ==
    \/ u \notin DOMAIN orders'
    \/ orders'[u].quantity < orders[u].quantity

\* does resting order y have priority over resting order x of the same side:
\* a better price, or the same price and an earlier submission
Ahead(y, x) ==
    /\ orders[y].side = orders[x].side
    /\ \/ Better(orders[x].side, orders[y].price, orders[x].price)
       \/ orders[y].price = orders[x].price /\ y < x

\* C4: when a limit or market operation fills a resting order, wholly or in
\* part, every resting order with priority over it (better price, or same
\* price and submitted earlier) has been filled completely and is gone.
C4_PriceTimePriority ==
    [][last'.op \in {"limit", "market"} =>
            \A x \in DOMAIN orders : Touched(x) =>
                \A y \in DOMAIN orders : Ahead(y, x) => y \notin DOMAIN orders'
      ]_vars

\* one operation filled two resting orders of the same price, the older one
\* first, and left an order of a worse price resting on their side
C4_Witness ==
    /\ Len(last.fills) >= 4
    /\ MakerOf(1).limit = MakerOf(2).limit
    /\ MakerOf(1).uid < MakerOf(2).uid
    /\ \E u \in Resting(MakerOf(1).side) :
            Better(MakerOf(1).side, MakerOf(1).limit, orders[u].price)

\* ------------------------------------------------------------------------
\* C5
\* ------------------------------------------------------------------------

\* is trading at price p no worse for a taker of the given side than its limit
Within(side, p, limit) == IF side = Buy THEN p <= limit ELSE p >= limit

\* C5: a crossing limit order never trades at a price worse than its own
\* limit price (a Buy never pays more, a Sell never receives less); what is
\* left of it rests on its own side at its limit price, and every order
\* still resting on the opposite side is priced beyond that limit.
C5_LimitBound ==
    last.op = "limit" =>
        /\ \A k \in Matches :
                Within(TakerOf(k).side, TakerOf(k).price, TakerOf(k).limit)
        /\ last.ret # 0 =>
                /\ last.ret \in DOMAIN orders
                /\ orders[last.ret].price \in DOMAIN TreeOf(orders[last.ret].side).limits
                /\ \E i \in 1..Len(TreeOf(orders[last.ret].side).limits[orders[last.ret].price].queue) :
                      TreeOf(orders[last.ret].side).limits[orders[last.ret].price].queue[i] = last.ret
                /\ \A u \in Resting(Invert(orders[last.ret].side)) :
                      ~Within(orders[last.ret].side, orders[u].price, orders[last.ret].price)

\* ------------------------------------------------------------------------
\* C6
\* ------------------------------------------------------------------------

\* the uids held in the FIFO queues of one side's price levels
Queued(side) ==
    {u \in 1..(sequence + 1) :
        \E p \in DOMAIN TreeOf(side).limits :
            \E i \in 1..Len(TreeOf(side).limits[p].queue) :
                TreeOf(side).limits[p].queue[i] = u}

\* C6: after every operation each account's order set is exactly the set of
\* orders resting in the book (in the UID map and in a level's queue) that
\* the account owns.
C6_AccountOrders ==
    /\ DOMAIN orders = Queued(Sell) \cup Queued(Buy)
    /\ \A a \in Usernames :
            accounts[a].orders = {u \in DOMAIN orders : orders[u].account = a}

\* an account holds a resting order after another of its orders was filled
\* completely and left its order set
C6_Witness ==
    /\ \E k \in Matches :
            /\ MakerOf(k).uid \notin DOMAIN orders
            /\ accounts[MakerOf(k).account].orders # {}
            /\ MakerOf(k).uid \notin accounts[MakerOf(k).account].orders

\* ------------------------------------------------------------------------
\* C7
\* ------------------------------------------------------------------------

\* the count and volume of one level agree with its queue
LevelConsistent(level) ==
    /\ level.count = Len(level.queue)
    /\ level.volume = SumSeq(level.queue, [u \in DOMAIN orders |-> orders[u].quantity])

\* C7: every price level's count and volume equal the length of its queue
\* and the sum of its orders' remaining quantities, and each side's count
\* and volume equal the sums over its levels.
C7_CountsAndVolumes ==
    \A side \in Sides :
        LET t == TreeOf(side) IN
        /\ \A p \in DOMAIN t.limits : LevelConsistent(t.limits[p])
        /\ t.count = SumSet(DOMAIN t.limits, [p \in DOMAIN t.limits |-> t.limits[p].count])
        /\ t.volume = SumSet(DOMAIN t.limits, [p \in DOMAIN t.limits |-> t.limits[p].volume])

\* a reduce left its order resting with less quantity, next to another order
\* of the same level
C7_Witness ==
    /\ last.op = "reduce"
    /\ ~last.threw
    /\ \E side \in Sides : \E p \in DOMAIN TreeOf(side).limits :
            /\ TreeOf(side).limits[p].count = 2
            /\ TreeOf(side).limits[p].volume < 2 * MaxQuantity

\* ------------------------------------------------------------------------
\* C8
\* ------------------------------------------------------------------------

\* C8: each side's best pointer is null exactly when the side holds no
\* orders, and otherwise it is the maximum resting price for Buy and the
\* minimum resting price for Sell; best_buy and best_sell report the price
\* the pointer names, and 0 for the null pointer.
C8_BestIsExtremum ==
    /\ \A side \in Sides :
            /\ TreeOf(side).best = NULL <=> Resting(side) = {}
            /\ Resting(side) # {} =>
                    TreeOf(side).best =
                        Extremum(side, {orders[u].price : u \in Resting(side)})
    /\ best_buy(State) = IF Resting(Buy) = {} THEN 0 ELSE buys.best
    /\ best_sell(State) = IF Resting(Sell) = {} THEN 0 ELSE sells.best

\* the best level of a side was emptied by a fill and best moved to the
\* next level of that side
C8_Witness ==
    /\ last.fills # <<>>
    /\ MakerOf(1).uid \notin DOMAIN orders
    /\ Resting(MakerOf(1).side) # {}
    /\ TreeOf(MakerOf(1).side).best # MakerOf(1).limit

\* ------------------------------------------------------------------------
\* C9
\* ------------------------------------------------------------------------

\* the connections whose session is bound to account a
BoundTo(a) == {c \in Conns : conns[c].account = a}

\* C9: no two connections are logged in to the same account, and an account's
\* connected flag is set exactly when an open connection is bound to it (the
\* account's handler is then that connection).
C9_OneSessionPerAccount ==
    \A a \in Usernames :
        /\ Cardinality(BoundTo(a)) <= 1
        /\ accounts[a].is_connected <=>
                \E c \in BoundTo(a) : conns[c].status = "open"
        /\ \A c \in BoundTo(a) : accounts[a].handler = c
        /\ BoundTo(a) = {} => accounts[a].handler = nullptr

\* a connection asked to log in to an account that another open connection
\* holds, and was answered SessionInUse
C9_Witness ==
    /\ last.op = "LoginRequest"
    /\ conns[last.conn].account = nullptr
    /\ conns[last.conn].output_buffer # <<>>
    /\ conns[last.conn].output_buffer[Len(conns[last.conn].output_buffer)].status
            = "SessionInUse"
    /\ \E a \in Usernames : accounts[a].is_connected /\ BoundTo(a) # {}

\* ------------------------------------------------------------------------
\* C10
\* ------------------------------------------------------------------------

\* the requests other than login, and the kind of frame that answers each
GuardedRequests ==
    {"OrderRequest", "CancelRequest", "ReplaceRequest", "PurgeRequest",
     "LogoutRequest"}
ResponseKind(op) ==
    CASE op = "OrderRequest" -> "OrderResponse"
      [] op = "CancelRequest" -> "CancelResponse"
      [] op = "ReplaceRequest" -> "ReplaceResponse"
      [] op = "PurgeRequest" -> "PurgeResponse"
      [] op = "LogoutRequest" -> "LogoutResponse"

\* the step handled a request other than login on a connection with no
\* account bound
UnauthenticatedRequest ==
    /\ last'.op \in GuardedRequests
    /\ conns[last'.conn].account = nullptr

\* the step appended exactly one frame to connection c, of the given kind
\* and status, and left c unauthenticated
Answered(c, kind, status) ==
    /\ Len(conns'[c].output_buffer) = Len(conns[c].output_buffer) + 1
    /\ SubSeq(conns'[c].output_buffer, 1, Len(conns[c].output_buffer))
            = conns[c].output_buffer
    /\ conns'[c].output_buffer[Len(conns'[c].output_buffer)].kind = kind
    /\ conns'[c].output_buffer[Len(conns'[c].output_buffer)].status = status
    /\ conns'[c].account = nullptr

\* C10: an Order, Cancel, Replace, Purge or Logout request on a connection
\* with no account bound is answered with one frame, Rejected (for Logout:
\* ProtocolViolation), and leaves the book, every account, the feed and
\* every other connection as they were.
C10_UnauthenticatedRejected ==
    [][UnauthenticatedRequest =>
            /\ Answered(last'.conn, ResponseKind(last'.op),
                        IF last'.op = "LogoutRequest" THEN "ProtocolViolation"
                        ELSE "Rejected")
            /\ UNCHANGED <<orders, sells, buys, sequence, accounts, feed>>
            /\ \A c \in Conns \ {last'.conn} : conns'[c] = conns[c]
      ]_vars

\* a connection with no account bound asked to cancel an order that rests in
\* the book and was answered Rejected
C10_Witness ==
    /\ last.op = "CancelRequest"
    /\ conns[last.conn].account = nullptr
    /\ conns[last.conn].output_buffer # <<>>
    /\ LET frame == conns[last.conn].output_buffer[Len(conns[last.conn].output_buffer)]
       IN /\ frame.status = "Rejected"
          /\ frame.order_id \in DOMAIN orders

\* ------------------------------------------------------------------------
\* C11
\* ------------------------------------------------------------------------

\* the last frame queued on connection c
LastFrame(c) == conns[c].output_buffer[Len(conns[c].output_buffer)]

\* the frame the step appended to connection c
Appended(c) == conns'[c].output_buffer[Len(conns'[c].output_buffer)]

\* may the session on connection c cancel the order uid: it is logged in, the
\* order is in the book and belongs to the session's account
MayCancel(c, uid) ==
    /\ conns[c].account # nullptr
    /\ uid \in DOMAIN orders
    /\ orders[uid].account = conns[c].account

\* C11: a CancelRequest is Accepted, and removes exactly the order it names,
\* when the session is logged in, the order is in the book and belongs to
\* the session's account; in every other case it is Rejected and the book,
\* the accounts and the feed are unchanged. No CancelRequest step removes an
\* order of an account other than the session's.
C11_CancelOnlyOwn ==
    [][last'.op = "CancelRequest" =>
        LET c == last'.conn
            uid == Appended(c).order_id
        IN /\ Appended(c).kind = "CancelResponse"
           /\ IF MayCancel(c, uid)
              THEN /\ Appended(c).status = "Accepted"
                   /\ DOMAIN orders' = DOMAIN orders \ {uid}
                   /\ \A u \in DOMAIN orders' : orders'[u] = orders[u]
                   /\ accounts'[conns[c].account].orders =
                            accounts[conns[c].account].orders \ {uid}
              ELSE /\ Appended(c).status = "Rejected"
                   /\ UNCHANGED <<orders, sells, buys, sequence, accounts, feed>>
           /\ \A u \in DOMAIN orders \ DOMAIN orders' :
                    orders[u].account = conns[c].account
      ]_vars

\* a logged-in session asked to cancel an order resting for another account
\* and was answered Rejected
C11_Witness ==
    /\ last.op = "CancelRequest"
    /\ conns[last.conn].account # nullptr
    /\ conns[last.conn].output_buffer # <<>>
    /\ LastFrame(last.conn).status = "Rejected"
    /\ LastFrame(last.conn).order_id \in DOMAIN orders
    /\ orders[LastFrame(last.conn).order_id].account # conns[last.conn].account

\* ------------------------------------------------------------------------
\* C12
\* ------------------------------------------------------------------------

\* the steps that handle a request frame
Requests ==
    {"LoginRequest", "LogoutRequest", "OrderRequest", "CancelRequest",
     "ReplaceRequest", "PurgeRequest", "UnknownRequest"}

\* the frames the step appended to connection c (for a step that pops none)
NewFrames(c) ==
    SubSeq(conns'[c].output_buffer, Len(conns[c].output_buffer) + 1,
           Len(conns'[c].output_buffer))

\* the TradeResponses the step appended to connection c
TradesOn(c) == SelectSeq(NewFrames(c), LAMBDA f : f.kind = "TradeResponse")

\* the Account::fill calls of the step on account a, in call order
FillsOf(a) == SelectSeq(last'.fills, LAMBDA f : f.account = a)

\* C12: in every step that handles a request, the TradeResponses appended to
\* a connection are exactly the fills booked on the account bound to that
\* connection, one frame per fill in order, with the fill's price, quantity
\* and side; a connection with no account bound receives none. No other
\* step appends a frame.
C12_TradeToOwnerOnly ==
    [][IF last'.op \in Requests
       THEN \A c \in Conns :
                /\ SubSeq(conns'[c].output_buffer, 1, Len(conns[c].output_buffer))
                        = conns[c].output_buffer
                /\ IF conns[c].account = nullptr
                   THEN TradesOn(c) = <<>>
                   ELSE /\ Len(TradesOn(c)) = Len(FillsOf(conns[c].account))
                        /\ \A i \in 1..Len(TradesOn(c)) :
                            LET f == TradesOn(c)[i]
                                b == FillsOf(conns[c].account)[i]
                            IN /\ f.price = b.price
                               /\ f.quantity = b.quantity
                               /\ f.side = bool_to_side(b.side)
                               /\ b.role = "maker" => f.order_id = b.uid
       ELSE \A c \in Conns :
                Len(conns'[c].output_buffer) <= Len(conns[c].output_buffer)
      ]_vars

\* an order of one session traded with the resting order of another: each of
\* the two connections holds the TradeResponse of its own account's fill
C12_Witness ==
    /\ last.op = "OrderRequest"
    /\ Len(last.fills) = 2
    /\ MakerOf(1).account # TakerOf(1).account
    /\ MakerOf(1).quantity > 0
    /\ \E c \in Conns \ {last.conn} :
            /\ conns[c].account = MakerOf(1).account
            /\ conns[c].output_buffer # <<>>
            /\ LastFrame(c).kind = "TradeResponse"
            /\ LastFrame(c).order_id = MakerOf(1).uid
    /\ conns[last.conn].account = TakerOf(1).account
    /\ Len(conns[last.conn].output_buffer) = 2
    /\ conns[last.conn].output_buffer[1].kind = "TradeResponse"

\* ------------------------------------------------------------------------
\* C13
\* ------------------------------------------------------------------------

\* C13: a connection starts with sequence 0 and nothing queued; the frames a
\* step appends to it carry the connection's sequence numbers from its
\* current one on, one after the other, and the connection's sequence
\* advances by the number of frames appended, whatever their kind; a step
\* that appends nothing leaves the sequence alone while the connection lives.
C13_SessionSequence ==
    /\ \A c \in Conns : conns[c].sequence = 0 /\ conns[c].output_buffer = <<>>
    /\ [][\A c \in Conns :
            IF last'.op \in Requests
            THEN /\ conns'[c].sequence = conns[c].sequence + Len(NewFrames(c))
                 /\ \A i \in 1..Len(NewFrames(c)) :
                        NewFrames(c)[i].sequence = conns[c].sequence + i - 1
            ELSE \/ conns'[c].sequence = conns[c].sequence
                 \/ conns'[c].status = "closed"
         ]_vars

\* a session that had emitted frames 0 and 1 for its own requests received,
\* as frame 2, the TradeResponse of a fill caused by another session's order
C13_Witness ==
    /\ last.op = "OrderRequest"
    /\ \E c \in Conns \ {last.conn} :
            /\ conns[c].output_buffer # <<>>
            /\ LastFrame(c).kind = "TradeResponse"
            /\ LastFrame(c).sequence = 2
            /\ conns[c].sequence = 3
    /\ Len(conns[last.conn].output_buffer) = 2
    /\ conns[last.conn].output_buffer[1].sequence = 1
    /\ conns[last.conn].output_buffer[2].sequence = 2

\* ------------------------------------------------------------------------
\* C14
\* ------------------------------------------------------------------------

\* the packets a step other than the completion of a send put on the feed
NewPackets ==
    SubSeq(feed'.output_buffer, Len(feed.output_buffer) + 1,
           Len(feed'.output_buffer))

\* C14: the publisher starts with sequence 1 and nothing queued; while the
\* process lives, the packets a step queues carry the publisher's sequence
\* numbers from its current one on, one after the other, StartOfSession and
\* EndOfSession like the book's packets, the publisher's sequence advances by
\* the number of packets queued, and the completion of a send only removes
\* the packet at the head of the queue.
C14_FeedSequence ==
    /\ feed.sequence = 1 /\ feed.output_buffer = <<>>
    /\ [][feed'.attached =>
            IF last'.op = "FeedSent"
            THEN /\ feed'.sequence = feed.sequence
                 /\ feed'.output_buffer = Tail(feed.output_buffer)
            ELSE /\ Len(feed'.output_buffer) >= Len(feed.output_buffer)
                 /\ SubSeq(feed'.output_buffer, 1, Len(feed.output_buffer))
                        = feed.output_buffer
                 /\ feed'.sequence = feed.sequence + Len(NewPackets)
                 /\ \A i \in 1..Len(NewPackets) :
                        NewPackets[i].sequence = feed.sequence + i - 1
         ]_vars

\* the console ended a session in which the book had published: the
\* EndOfSession packet is the publisher's packet MaxPackets, after the
\* StartOfSession packet and the packets of the book in between, and an
\* order the book announced still rests
C14_Witness ==
    /\ last.op = "end_of_session"
    /\ feed.output_buffer # <<>>
    /\ feed.output_buffer[Len(feed.output_buffer)].kind = "EndOfSession"
    /\ feed.output_buffer[Len(feed.output_buffer)].sequence = MaxPackets
    /\ feed.sequence = MaxPackets + 1
    /\ orders # <<>>

\* ------------------------------------------------------------------------
\* C15
\* ------------------------------------------------------------------------

\* the step did nothing but queue its response on connection c
OnlyResponded(c) ==
    /\ UNCHANGED <<orders, sells, buys, sequence, accounts, feed, cli>>
    /\ conns'[c].account = conns[c].account
    /\ \A k \in Conns \ {c} : conns'[k] = conns[k]

\* the credentials name a configured account and its password
KnownCredentials(username, password) ==
    /\ username \in Usernames
    /\ PasswordOf(username) = password

\* C15: a LoginRequest is answered by one LoginResponse: AlreadyAuthorized if
\* the session is bound to an account; else NotAuthorized if the credentials
\* are unknown or mismatched; else SessionInUse if another session is bound
\* to the account; else Accepted, and then the session is bound to the
\* account, the account is connected with this session as its handler, and
\* nothing else changes. In the three other cases the step only queues the
\* response.
C15_LoginOutcome ==
    [][last'.op = "LoginRequest" =>
        LET c == last'.conn
            username == last'.args[1]
            password == last'.args[2]
        IN /\ Len(NewFrames(c)) = 1
           /\ Appended(c).kind = "LoginResponse"
           /\ IF conns[c].account # nullptr
              THEN Appended(c).status = "AlreadyAuthorized" /\ OnlyResponded(c)
              ELSE IF ~KnownCredentials(username, password)
              THEN Appended(c).status = "NotAuthorized" /\ OnlyResponded(c)
              ELSE IF \E k \in Conns \ {c} : conns[k].account = username
              THEN Appended(c).status = "SessionInUse" /\ OnlyResponded(c)
              ELSE /\ Appended(c).status = "Accepted"
                   /\ conns'[c].account = username
                   /\ accounts' = [accounts EXCEPT
                                      ![username].is_connected = TRUE,
                                      ![username].handler = c]
                   /\ \A k \in Conns \ {c} : conns'[k] = conns[k]
                   /\ UNCHANGED <<orders, sells, buys, sequence, feed, cli>>
    ]_vars

\* a session bound to one account sent the valid credentials of the other
\* account, which is connected on the other session: all three refusals
\* apply and the answer is the first, AlreadyAuthorized
C15_Witness ==
    /\ last.op = "LoginRequest"
    /\ conns[last.conn].account # nullptr
    /\ KnownCredentials(last.args[1], last.args[2])
    /\ last.args[1] # conns[last.conn].account
    /\ \E k \in Conns \ {last.conn} : conns[k].account = last.args[1]
    /\ LastFrame(last.conn).kind = "LoginResponse"
    /\ LastFrame(last.conn).status = "AlreadyAuthorized"

\* ------------------------------------------------------------------------
\* C16
\* ------------------------------------------------------------------------

\* the frames queued on connection c, as <<kind, status, sequence>>
Responses(c) ==
    [i \in 1..Len(conns[c].output_buffer) |->
        <<conns[c].output_buffer[i].kind, conns[c].output_buffer[i].status,
          conns[c].output_buffer[i].sequence>>]

\* C16: a login with an account's credentials on an unbound session is
\* answered SessionInUse while another session is bound to the account, and
\* that session stays bound; it is answered Accepted and binds the session
\* when no session is bound to the account. A LogoutRequest on a bound
\* session is answered UserRequested and frees the account: no session is
\* bound to it, it is not connected and has no handler, so that the next
\* login to it from any session is of the second kind.
C16_LoginAfterLogout ==
    [][/\ last'.op = "LoginRequest"
          /\ conns[last'.conn].account = nullptr
          /\ KnownCredentials(last'.args[1], last'.args[2])
          => LET c == last'.conn
                 a == last'.args[1]
             IN IF \E k \in Conns \ {c} : conns[k].account = a
                THEN /\ Appended(c).status = "SessionInUse"
                     /\ conns'[c].account = nullptr
                     /\ \A k \in Conns \ {c} : conns'[k].account = conns[k].account
                     /\ accounts'[a] = accounts[a]
                ELSE /\ Appended(c).status = "Accepted"
                     /\ conns'[c].account = a
       /\ last'.op = "LogoutRequest" /\ conns[last'.conn].account # nullptr
          => LET c == last'.conn
                 a == conns[c].account
             IN /\ Appended(c).kind = "LogoutResponse"
                /\ Appended(c).status = "UserRequested"
                /\ \A k \in Conns : conns'[k].account # a
                /\ ~accounts'[a].is_connected
                /\ accounts'[a].handler = nullptr
    ]_vars

\* the scenario, read off the output buffers: one session was Accepted and
\* then logged out with UserRequested, the other was refused with
\* SessionInUse and has now been Accepted for the same account
C16_Witness ==
    /\ last.op = "LoginRequest"
    /\ KnownCredentials(last.args[1], last.args[2])
    /\ conns[last.conn].account = last.args[1]
    /\ Responses(last.conn) = << <<"LoginResponse", "SessionInUse", 0>>,
                                 <<"LoginResponse", "Accepted", 1>> >>
    /\ \E k \in Conns \ {last.conn} :
            /\ conns[k].account = nullptr
            /\ Responses(k) = << <<"LoginResponse", "Accepted", 0>>,
                                 <<"LogoutResponse", "UserRequested", 1>> >>

\* ------------------------------------------------------------------------
\* C17
\* ------------------------------------------------------------------------

\* what handle(Header) does for a frame of an unknown kind: the session's
\* account is logged out and one LogoutResponse with reason
\* ProtocolViolation is queued
ViolationAnswered ==
    [][last'.op = "UnknownRequest" =>
        LET c == last'.conn
            a == conns[c].account
        IN /\ conns'[c].account = nullptr
           /\ a # nullptr => /\ ~accounts'[a].is_connected
                             /\ accounts'[a].handler = nullptr
           /\ Len(NewFrames(c)) = 1
           /\ Appended(c).kind = "LogoutResponse"
           /\ Appended(c).status = "ProtocolViolation"
    ]_vars

\* C17: after a frame of an unknown kind the connection is closed: its read
\* loop has ended, so that no later frame from it is processed.
C17_ViolationCloses ==
    [][last'.op = "UnknownRequest" => conns'[last'.conn].status = "closed"]_vars

\* ------------------------------------------------------------------------
\* C18
\* ------------------------------------------------------------------------

\* what the write handler does on an error: nothing is thrown and nothing
\* but the connection's own write loop changes
WriteErrorContained ==
    [][last'.op = "WriteError" =>
        /\ ~last'.threw
        /\ \A k \in Conns \ {last'.conn} : conns'[k] = conns[k]
        /\ UNCHANGED <<orders, sells, buys, sequence, accounts, feed, cli>>
    ]_vars

\* C18: a read or write error other than EOF on one connection throws
\* nothing out of the event loop and leaves every other connection, the
\* book, the feed and the console as they are: the process keeps serving.
C18_SessionErrorContained ==
    [][last'.op \in {"ReadError", "WriteError"} =>
        /\ ~last'.threw
        /\ \A k \in Conns \ {last'.conn} : conns'[k] = conns[k]
        /\ UNCHANGED <<orders, sells, buys, sequence, feed, cli>>
    ]_vars

\* ------------------------------------------------------------------------
\* C19
\* ------------------------------------------------------------------------

\* the quantity the taker of operation l traded, summed over its matches
TakerFilled(l) ==
    SumSet(1..(Len(l.fills) \div 2),
           [k \in 1..(Len(l.fills) \div 2) |-> l.fills[2 * k].quantity])

\* an order entering on side at price crosses the book as it stands: the
\* opposite side holds an order priced at or through it
EntryCross(side, price) ==
    \E u \in Resting(Invert(side)) :
        IF side = Buy THEN orders[u].price <= price
        ELSE orders[u].price >= price

\* the uids held in the queues of a tree's price levels
QueuedIn(tree) ==
    UNION {{tree.limits[p].queue[i] : i \in 1..Len(tree.limits[p].queue)} :
              p \in DOMAIN tree.limits}

\* C19: limit() returns 0 exactly when the entering order crossed and the
\* matches took its whole quantity; then its uid is not in the UID map, in
\* no price level's queue and in no account's order set. Otherwise it
\* returns the uid the order was given, which is not 0, and the order rests
\* under it with the quantity the matches left: in the UID map, in the queue
\* of its price on its side, and in its account's order set.
C19_LimitReturn ==
    [][last'.op = "limit" =>
        LET uid == sequence
            account == last'.args[1]
            side == last'.args[2]
            remaining == last'.args[3] - TakerFilled(last')
            price == last'.args[4]
            own == IF side = Sell THEN sells' ELSE buys'
        IN /\ last'.ret = 0 <=> (EntryCross(side, price) /\ remaining = 0)
           /\ last'.ret = 0 =>
                /\ uid \notin DOMAIN orders'
                /\ uid \notin QueuedIn(sells') \cup QueuedIn(buys')
                /\ \A a \in Usernames : uid \notin accounts'[a].orders
           /\ last'.ret # 0 =>
                /\ last'.ret = uid
                /\ uid \in DOMAIN orders'
                /\ orders'[uid] = Order(uid, side, remaining, price, account)
                /\ price \in DOMAIN own.limits
                /\ \E i \in 1..Len(own.limits[price].queue) :
                        own.limits[price].queue[i] = uid
                /\ uid \in accounts'[account].orders
    ]_vars

\* a limit order for the whole bound crossed two resting orders of 1 each,
\* was consumed by the two matches and returned 0
C19_Witness ==
    /\ last.op = "limit"
    /\ last.ret = 0
    /\ Len(last.fills) = 4
    /\ last.args[3] = 2
    /\ TakerFilled(last) = 2
    /\ orders = <<>>

\* ------------------------------------------------------------------------
\* C20
\* ------------------------------------------------------------------------

\* what the book's interface does keep: the next uid never decreases, a
\* limit() that returns a uid returns the next uid and moves it on by one,
\* and nothing else moves it
ReturnedUidsIncrease ==
    [][/\ sequence' >= sequence
       /\ sequence' # sequence => last'.op = "limit" /\ last'.ret # 0
       /\ last'.op = "limit" /\ last'.ret # 0 =>
            last'.ret = sequence /\ sequence' = sequence + 1
    ]_vars

\* C20: the next uid never decreases, and every limit() call uses up the uid
\* it gave to the order it created, whether the order came to rest or was
\* filled on entry: the uid of an order lies below the uid of every order
\* created after it, and a uid the call returns is the one its order was
\* given.
C20_UidsNeverReused ==
    [][/\ sequence' >= sequence
       /\ last'.op = "limit" => sequence' > sequence
       /\ last'.op = "limit" /\ last'.ret # 0 => last'.ret = sequence
    ]_vars

\* ------------------------------------------------------------------------
\* C21
\* ------------------------------------------------------------------------

\* the quantity resting on one side of the book
VolumeOf(side) ==
    SumSet(Resting(side), [u \in Resting(side) |-> orders[u].quantity])

Min(a, b) == IF a <= b THEN a ELSE b

\* C21: a market order of quantity Q trades exactly the smaller of Q and the
\* quantity resting on the opposite side; whatever is left of it is dropped:
\* the call adds no order to the UID map, leaves its own side of the book and
\* the next uid as they are, and against an empty opposite side it books no
\* fill and changes neither the book nor any account.
C21_MarketFills ==
    [][last'.op = "market" =>
        LET side == last'.args[2]
            quantity == last'.args[3]
        IN /\ TakerFilled(last') = Min(quantity, VolumeOf(Invert(side)))
           /\ DOMAIN orders' \subseteq DOMAIN orders
           /\ sequence' = sequence
           /\ IF side = Sell THEN sells' = sells ELSE buys' = buys
           /\ Resting(Invert(side)) = {} =>
                /\ last'.fills = <<>>
                /\ UNCHANGED <<orders, sells, buys, sequence, accounts>>
    ]_vars

\* a market order for 2 took the only resting order, of 1, emptied the
\* book, and its remainder rests nowhere
C21_Witness ==
    /\ last.op = "market"
    /\ Len(last.fills) = 2
    /\ TakerFilled(last) = 1
    /\ last.args[3] = 2
    /\ orders = <<>>
    /\ sells = EmptyTree /\ buys = EmptyTree

\* ------------------------------------------------------------------------
\* C22
\* ------------------------------------------------------------------------

\* the session of the request is logged in and the request names an order
\* in the book that another account owns
NamesForeignOrder(c, uid) ==
    /\ conns[c].account # nullptr
    /\ uid \in DOMAIN orders
    /\ orders[uid].account # conns[c].account

\* C22: a ReplaceRequest of a logged-in session that names an order of
\* another account is answered by one ReplaceResponse with status Rejected
\* and does nothing else: the named order and every other order stay as they
\* are in the UID map and in the queues of both sides, no uid is used up, no
\* account changes, nothing is published and no other session is sent a
\* frame.
C22_ReplaceForeignRejected ==
    [][last'.op = "ReplaceRequest"
       /\ NamesForeignOrder(last'.conn, last'.args[1]) =>
            /\ Len(NewFrames(last'.conn)) = 1
            /\ Appended(last'.conn).kind = "ReplaceResponse"
            /\ Appended(last'.conn).status = "Rejected"
            /\ last'.fills = <<>>
            /\ OnlyResponded(last'.conn)
    ]_vars

\* the session of one account asked to replace the resting order of the
\* other account with an order that would have crossed it; it was Rejected
\* and the order rests
C22_Witness ==
    /\ last.op = "ReplaceRequest"
    /\ NamesForeignOrder(last.conn, last.args[1])
    /\ LastFrame(last.conn).status = "Rejected"
    /\ orders[last.args[1]].side = Sell
    /\ last.args[4] = "B"
    /\ last.args[2] >= orders[last.args[1]].price
    /\ last.args[3] >= 1

\* ------------------------------------------------------------------------
\* C23
\* ------------------------------------------------------------------------

\* the step entered a limit order of the account on the book as it stood:
\* either the order crossed and its matches took its whole quantity, it is
\* not in the UID map and no uid was used up, and reported is 0; or the
\* order rests with what the matches left under the next uid, which is
\* reported
Entered(account, side, quantity, price, reported) ==
    LET uid == sequence
        remaining == quantity - TakerFilled(last')
        own == IF side = Sell THEN sells' ELSE buys'
    IN IF reported = 0
       THEN /\ EntryCross(side, price)
            /\ remaining = 0
            /\ uid \notin DOMAIN orders'
            /\ sequence' = sequence
       ELSE /\ reported = uid
            /\ sequence' = uid + 1
            /\ uid \in DOMAIN orders'
            /\ orders'[uid] = Order(uid, side, remaining, price, account)
            /\ price \in DOMAIN own.limits
            /\ own.limits[price].queue[Len(own.limits[price].queue)] = uid
            /\ uid \in accounts'[account].orders

\* C23: a ReplaceRequest with side 'B' or 'S' from a logged-in session whose
\* order_id names no order in the book is answered by one ReplaceResponse
\* with status Accepted and canceled = 0; no order is canceled, and the new
\* limit order is entered for the session's account, new_order_id being what
\* limit() returned for it: the uid under which it rests, or 0 if it was
\* filled on entry.
C23_ReplaceMissingAccepted ==
    [][/\ last'.op = "ReplaceRequest"
       /\ conns[last'.conn].account # nullptr
       /\ last'.args[1] \notin DOMAIN orders
       /\ last'.args[4] \in {"B", "S"}
       => LET c == last'.conn
              response == conns'[c].output_buffer[Len(conns'[c].output_buffer)]
          IN /\ response.kind = "ReplaceResponse"
             /\ response.status = "Accepted"
             /\ response.order_id = 0
             /\ response.new_order_id = last'.ret
             /\ Entered(conns[c].account, side_to_LOB_side(last'.args[4]),
                        last'.args[3], last'.args[2], response.new_order_id)
             /\ \A u \in DOMAIN orders :
                    u \in DOMAIN orders' \/ \E k \in 1..(Len(last'.fills) \div 2) :
                                                last'.fills[2 * k - 1].uid = u
    ]_vars

\* a session asked to replace order 1, which had rested and is gone from the
\* book, and the new order rests as order 2 of the session's account
C23_Witness ==
    /\ last.op = "ReplaceRequest"
    /\ last.args[1] = 1
    /\ sequence = 3
    /\ LastFrame(last.conn).kind = "ReplaceResponse"
    /\ LastFrame(last.conn).status = "Accepted"
    /\ LastFrame(last.conn).order_id = 0
    /\ LastFrame(last.conn).new_order_id = 2
    /\ DOMAIN orders = {2}
    /\ orders[2].account = conns[last.conn].account

\* ------------------------------------------------------------------------
\* C24
\* ------------------------------------------------------------------------

\* the queue of price p in a tree, empty when the tree has no such level
QueueAt(tree, p) ==
    IF p \in DOMAIN tree.limits THEN tree.limits[p].queue ELSE <<>>

\* a queue of the book as it stands without the orders of account a
WithoutOrdersOf(queue, a) ==
    LET Other(u) == orders[u].account # a
    IN SelectSeq(queue, Other)

TakerIsMarket(fill) ==
    last'.op = "OrderRequest" /\ fill.limit = ORDER_PRICE_MARKET

\* what the callbacks send: the maker's TradeResponse carries the maker
\* order's uid, the taker's TradeResponse carries 0 whatever the taker is
TradeOrderIdSent ==
    [][last'.op \in Requests =>
        \A c \in Conns : conns[c].account # nullptr =>
            \A i \in 1..Len(TradesOn(c)) :
                TradesOn(c)[i].order_id =
                    IF FillsOf(conns[c].account)[i].role = "maker"
                    THEN FillsOf(conns[c].account)[i].uid
                    ELSE ORDER_ID_MARKET
    ]_vars

\* C25: the TradeResponse of a maker's fill carries the maker order's uid;
\* the TradeResponse of a taker's fill carries 0 if the taker is a market
\* order and the uid of the taker's order if the taker is a limit order
\* that crossed.
C25_TradeOrderId ==
    [][last'.op \in Requests =>
        \A c \in Conns : conns[c].account # nullptr =>
            \A i \in 1..Len(TradesOn(c)) :
                LET fill == FillsOf(conns[c].account)[i]
                IN TradesOn(c)[i].order_id =
                    IF fill.role = "maker" THEN fill.uid
                    ELSE IF TakerIsMarket(fill) THEN ORDER_ID_MARKET
                    ELSE fill.uid
    ]_vars

\* ------------------------------------------------------------------------
\* C26
\* ------------------------------------------------------------------------

\* what the handlers send to a session that has not logged in: the
\* OrderResponse carries ORDER_ID_REJECTED, the ReplaceResponse carries the
\* request's order_id as canceled and ORDER_ID_REJECTED as new_order_id
RejectedIdsSent ==
    [][last'.op \in {"OrderRequest", "ReplaceRequest"}
       /\ conns[last'.conn].account = nullptr =>
            /\ Appended(last'.conn).status = "Rejected"
            /\ Appended(last'.conn).new_order_id = ORDER_ID_REJECTED
            /\ Appended(last'.conn).order_id =
                    IF last'.op = "OrderRequest" THEN ORDER_ID_REJECTED
                    ELSE last'.args[1]
    ]_vars

\* C26: an OrderRequest, CancelRequest or ReplaceRequest of a session that
\* has not logged in is answered with the Rejected response of its kind, and
\* the response carries 0 in its order-id fields: order_id of an
\* OrderResponse or CancelResponse, canceled and new_order_id of a
\* ReplaceResponse.
C26_RejectedSentinelIds ==
    [][last'.op \in {"OrderRequest", "CancelRequest", "ReplaceRequest"}
       /\ conns[last'.conn].account = nullptr =>
            /\ Appended(last'.conn).kind = ResponseKind(last'.op)
            /\ Appended(last'.conn).status = "Rejected"
            /\ Appended(last'.conn).order_id = ORDER_ID_REJECTED
            /\ Appended(last'.conn).new_order_id = ORDER_ID_REJECTED
    ]_vars

\* ------------------------------------------------------------------------
\* C27
\* ------------------------------------------------------------------------

\* the number of frames of connection c that have been written: those it
\* has enqueued less those still queued
Written(c) == conns[c].sequence - Len(conns[c].output_buffer)

\* C27: the frames of a session are numbered in the order in which they are
\* enqueued (C13); the frame a completed write takes off the queue is its
\* head and carries the number of frames written before it, so the k-th
\* frame written is the k-th frame enqueued; a step that enqueues leaves the
\* queued frames in place ahead of the new ones, and no step but a completed
\* write takes a frame off the queue of a living connection.
C27_WrittenInOrder ==
    [][\A c \in Conns :
        IF last'.op = "WriteDone" /\ last'.conn = c
        THEN /\ conns[c].writing
             /\ conns[c].output_buffer # <<>>
             /\ Head(conns[c].output_buffer).sequence = Written(c)
             /\ conns'[c].output_buffer = Tail(conns[c].output_buffer)
             /\ conns'[c].sequence = conns[c].sequence
             /\ conns'[c].writing = (conns'[c].output_buffer # <<>>)
        ELSE \/ /\ Len(conns'[c].output_buffer) >= Len(conns[c].output_buffer)
                /\ SubSeq(conns'[c].output_buffer, 1, Len(conns[c].output_buffer))
                        = conns[c].output_buffer
                /\ \A i \in 1..Len(conns'[c].output_buffer) :
                        conns'[c].output_buffer[i].sequence
                            = Written(c) + i - 1
             \/ conns'[c].status = "closed"
    ]_vars

\* two frames of a session have been written, frame 0 and then frame 1, and
\* the third is at the head of the queue and being written
C27_Witness ==
    /\ last.op = "WriteDone"
    /\ conns[last.conn].sequence = 3
    /\ Len(conns[last.conn].output_buffer) = 1
    /\ Head(conns[last.conn].output_buffer).sequence = 2
    /\ conns[last.conn].writing

\* ------------------------------------------------------------------------
\* C28: the mirror book follows the engine's book
\* ------------------------------------------------------------------------

\* C28: on a network that delivers every packet of the publisher once and in
\* sequence order, the receive handler never throws, and after it has applied
\* a packet the subscriber's mirror book holds exactly the resting orders
\* (uid, side, price, remaining quantity) the engine's book held when the
\* packet was produced.
C28_MirrorFollowsEngine ==
    last.op = "ReceivePacket" =>
        /\ ~last.threw
        /\ RestingOrders(receiver.book) = last.args[1].book

\* a Trade packet was applied and left the mirror with the resting orders the
\* engine had when it produced the packet, a partly filled order among them,
\* while the engine's book has changed since
C28_Witness ==
    /\ last.op = "ReceivePacket"
    /\ last.args[1].kind = "Trade"
    /\ RestingOrders(receiver.book) = last.args[1].book
    /\ \E o \in last.args[1].book :
            o.uid = last.args[1].uid /\ o.quantity = 1
    /\ RestingOrders(State) # last.args[1].book

\* ------------------------------------------------------------------------
\* C29: a packet out of sequence is reported, adopted and applied
\* ------------------------------------------------------------------------

\* the step applied packet p to the mirror book: an AddOrder that crosses
\* nothing rests under its uid with its side, price and quantity; a
\* DeleteOrder of a known uid removes it; a Trade on a known uid takes its
\* quantity off the order and removes the order at 0 (the handler throws when
\* the order has less); deletes and trades of unknown uids change nothing
Applied(p) ==
    LET book == receiver.book
        after == receiver'.book
    IN CASE p.kind = "AddOrder" ->
                \/ Tree(book, Invert(side_to_LOB_side(p.side))).best # NULL
                \/ /\ DOMAIN after.orders = DOMAIN book.orders \cup {p.uid}
                   /\ after.orders[p.uid] =
                        MirrorOrder(p.uid, side_to_LOB_side(p.side),
                                    p.quantity, p.price)
                   /\ p.uid \in UidsIn(Tree(after, side_to_LOB_side(p.side)))
         [] p.kind = "DeleteOrder" ->
                IF p.uid \in DOMAIN book.orders
                THEN /\ DOMAIN after.orders = DOMAIN book.orders \ {p.uid}
                     /\ p.uid \notin UidsIn(after.sells) \cup UidsIn(after.buys)
                ELSE after = book
         [] p.kind = "Trade" ->
                IF p.uid \notin DOMAIN book.orders THEN after = book
                ELSE IF p.quantity > book.orders[p.uid].quantity
                     THEN last'.threw /\ ~receiver'.listening
                     ELSE IF p.quantity = book.orders[p.uid].quantity
                          THEN DOMAIN after.orders = DOMAIN book.orders \ {p.uid}
                          ELSE /\ DOMAIN after.orders = DOMAIN book.orders
                               /\ after.orders[p.uid].quantity =
                                    book.orders[p.uid].quantity - p.quantity
         [] OTHER -> after = book

C30_AppliedInSequenceOrder ==
    [][last'.op = "ReceivePacket" =>
            last'.args[1].sequence > receiver.last_sequence]_vars

\* what the receive handler does instead: the packet it applies is the one
\* the socket handed over, whatever is still in flight, and a packet with a
\* sequence below last_sequence + 1 is reported like any other gap
AppliedOnArrival ==
    [][last'.op = "ReceivePacket" =>
            /\ \E i \in 1..Len(wire) :
                    last'.args[1] = wire[i] /\ wire' = Rest(i)
            /\ receiver'.last_sequence = last'.args[1].sequence
            /\ last'.args[1].sequence <= receiver.last_sequence
                    => last'.ret = 1]_vars

\* ------------------------------------------------------------------------
\* C31: deletes and trades of unknown uids are tolerated
\* ------------------------------------------------------------------------

\* C31: a DeleteOrder or Trade packet naming a uid that is not in the mirror
\* book leaves the mirror book and the session flag as they were, does not
\* throw, and leaves the subscriber listening for the next packet.
C31_UnknownUidTolerated ==
    [][/\ last'.op = "ReceivePacket"
       /\ last'.args[1].kind \in {"DeleteOrder", "Trade"}
       /\ last'.args[1].uid \notin DOMAIN receiver.book.orders
       => /\ receiver'.book = receiver.book
          /\ receiver'.is_session_active = receiver.is_session_active
          /\ ~last'.threw
          /\ receiver'.listening]_vars

\* the subscriber applied a Trade on an order whose AddOrder is still in
\* flight (it never had the order): its mirror still holds another order and
\* it is listening for the packets that are left
C31_Witness ==
    /\ last.op = "ReceivePacket"
    /\ last.args[1].kind = "Trade"
    /\ \E i \in 1..Len(wire) :
            wire[i].kind = "AddOrder" /\ wire[i].uid = last.args[1].uid
    /\ last.args[1].uid \notin DOMAIN receiver.book.orders
    /\ receiver.book.orders # <<>>
    /\ receiver.listening
    /\ ~last.threw

\* ------------------------------------------------------------------------
\* C32: a limit order that rests and is cancelled at once leaves no trace
\* ------------------------------------------------------------------------

\* the state after book.limit(a, side, quantity, price) and, when the order
\* rests, book.cancel of the uid it returned
LimitThenCancel(a, side, quantity, price) ==
    LET r == BookLimit(Begin(State, "limit"), a, side, quantity, price)
    IN IF r.uid = 0 THEN r.s ELSE BookCancel(r.s, r.uid)

\* C32: from any state of the book, a limit order that rests without
\* trading and is then cancelled with nothing in between leaves the UID map,
\* both trees (levels with their queues, counts and volumes, the side
\* totals, best) and every account (shares, capital, order set) as they were
\* before the submit.
C32_SubmitCancelRestores ==
    \A a \in Usernames, side \in Sides, q \in Quantities, p \in Prices :
        LET r == BookLimit(Begin(State, "limit"), a, side, q, p)
            s == LimitThenCancel(a, side, q, p)
        IN r.uid # 0 /\ r.s.last.fills = <<>> =>
            /\ r.uid \in DOMAIN r.s.orders
            /\ r.uid \in r.s.accounts[a].orders
            /\ s.orders = orders
            /\ s.sells = sells
            /\ s.buys = buys
            /\ s.accounts = accounts

\* order 2 was the last to rest and has just been cancelled while order 1
\* rests: the book holds order 1 alone, no account holds order 2 and no
\* account has traded
C32_Witness ==
    /\ last.op = "cancel"
    /\ sequence = 3
    /\ DOMAIN orders = {1}
    /\ \A a \in Usernames : accounts[a].orders \subseteq {1}
    /\ \A a \in Usernames : accounts[a].shares = 0 /\ accounts[a].capital = 0

\* ------------------------------------------------------------------------
\* C33: reduce by more than the order has
\* ------------------------------------------------------------------------

\* C33: book.reduce(uid, quantity) throws exactly when quantity exceeds what
\* the order has left, and then the order, its price level, both trees, the
\* uid counter and every account are as they were before the call.
C33_ReduceTooMuchFails ==
    [][last'.op = "reduce" =>
        /\ last'.threw <=> (last'.args[2] > orders[last'.args[1]].quantity)
        /\ last'.threw =>
                UNCHANGED <<orders, sells, buys, sequence, accounts>>]_vars

\* reduce(1, 2) has just thrown on order 1, which rests with quantity 1
\* beside order 2
C33_Witness ==
    /\ last.op = "reduce"
    /\ last.threw
    /\ last.args = <<1, 2>>
    /\ orders[1].quantity = 1
    /\ DOMAIN orders = {1, 2}

\* ------------------------------------------------------------------------
\* C34: the uid of an order filled on entry
\* ------------------------------------------------------------------------

\* C34: a limit order that is filled on entry (the call returns 0) has used
\* up a uid all the same: the call leaves the next uid one higher, so the uid
\* of the next resting order skips a value.
C34_FilledOrderConsumesUid ==
    [][last'.op = "limit" /\ last'.ret = 0 => sequence' = sequence + 1]_vars

\* what the book does instead: a limit order that returns 0 leaves the next
\* uid as it was, so the resting orders' uids are consecutive
FilledOrderKeepsUid ==
    [][last'.op = "limit" /\ last'.ret = 0 => sequence' = sequence]_vars

\* ------------------------------------------------------------------------
\* C35: account order sets after clear()
\* ------------------------------------------------------------------------

\* C35: after any sequence of limit, market, cancel, reduce and clear, no
\* account's order set holds an order that is not in the book's UID map, and
\* after clear() every account's order set is empty.
C35_NoStaleOrderReference ==
    \A a \in Usernames :
        /\ accounts[a].orders \subseteq DOMAIN orders
        /\ last.op = "clear" => accounts[a].orders = {}

\* what clear() does: it empties the UID map and both trees, sets the next
\* uid to 1, and leaves every account (its order set included) as it was
ClearLeavesAccounts ==
    [][last'.op = "clear" =>
        /\ orders' = <<>>
        /\ sells' = EmptyTree /\ buys' = EmptyTree
        /\ sequence' = 1
        /\ accounts' = accounts]_vars

\* without clear(), no operation leaves a stale order in an order set
StaleOnlyAfterClear ==
    [][(\A a \in Usernames : accounts[a].orders \subseteq DOMAIN orders)
       /\ last'.op # "clear"
       => \A a \in Usernames : accounts'[a].orders \subseteq DOMAIN orders']_vars

\* ------------------------------------------------------------------------
\* C36: the orders of an account without a session
\* ------------------------------------------------------------------------

RECURSIVE SharesBought(_)
\* the shares a sequence of fills adds to an account (sells count negative)
SharesBought(fills) ==
    IF fills = <<>> THEN 0
    ELSE (IF Head(fills).side = Buy THEN Head(fills).quantity
          ELSE 0 - Head(fills).quantity) + SharesBought(Tail(fills))

RECURSIVE CapitalPaid(_)
\* the capital a sequence of fills takes from an account (sells count negative)
CapitalPaid(fills) ==
    IF fills = <<>> THEN 0
    ELSE (IF Head(fills).side = Buy THEN Head(fills).quantity * Head(fills).price
          ELSE 0 - Head(fills).quantity * Head(fills).price)
         + CapitalPaid(Tail(fills))

\* the orders of account a resting in the book after the step
OwnedAfter(a) == {u \in DOMAIN orders' : orders'[u].account = a}

\* C36: a LogoutRequest and the end of the peer's stream leave the book (UID
\* map, both trees with their queues) and every account's shares, capital and
\* order set as they were. In a step that handles a request, every fill
\* booked on an account with no session bound updates that account's shares
\* and capital, its order set is again the set of its resting orders, and no
\* TradeResponse is queued for it: the connections with no account bound and
\* the connections of other accounts get no frame for these fills.
C36_OrdersOutliveSession ==
    [][/\ last'.op \in {"LogoutRequest", "Eof"} =>
            /\ UNCHANGED <<orders, sells, buys, sequence>>
            /\ \A a \in Usernames :
                    /\ accounts'[a].shares = accounts[a].shares
                    /\ accounts'[a].capital = accounts[a].capital
                    /\ accounts'[a].orders = accounts[a].orders
       /\ last'.op \in Requests =>
            \A a \in Usernames :
                accounts[a].handler = nullptr /\ accounts'[a].handler = nullptr =>
                    /\ accounts'[a].shares =
                            accounts[a].shares + SharesBought(FillsOf(a))
                    /\ accounts'[a].capital =
                            accounts[a].capital - CapitalPaid(FillsOf(a))
                    /\ accounts'[a].orders = OwnedAfter(a)
                    /\ \A c \in Conns :
                            Len(TradesOn(c)) =
                                IF conns[c].account = nullptr THEN 0
                                ELSE Len(FillsOf(conns[c].account))
      ]_vars

\* an order request has just traded with the resting order of an account that
\* has no session: the account's shares moved, its order left its order set,
\* and only the requesting connection holds frames
C36_Witness ==
    /\ last.op = "OrderRequest"
    /\ \E i \in 1..Len(last.fills) :
            LET f == last.fills[i]
            IN /\ f.role = "maker"
               /\ accounts[f.account].handler = nullptr
               /\ ~accounts[f.account].is_connected
               /\ accounts[f.account].shares # 0
               /\ f.uid \notin accounts[f.account].orders
               /\ f.uid \notin DOMAIN orders
    /\ \A c \in Conns \ {last.conn} : conns[c].output_buffer = <<>>
    /\ \E i \in 1..Len(conns[last.conn].output_buffer) :
            conns[last.conn].output_buffer[i].kind = "TradeResponse"

\* ------------------------------------------------------------------------
\* C37: the price and quantity of a resting order
\* ------------------------------------------------------------------------

\* C37: whatever price and quantity fields the OrderRequests and
\* ReplaceRequests carry, every order resting in the book has a price other
\* than 0 and a remaining quantity other than 0.
C37_RestingOrdersPositive ==
    \A u \in DOMAIN orders : orders[u].price # 0 /\ orders[u].quantity # 0

\* what the handlers do keep: an OrderRequest with price 0 is a market order
\* and rests nothing, so an order with price 0 enters the book through a
\* ReplaceRequest only
ZeroPriceOnlyByReplace ==
    [][(\A u \in DOMAIN orders : orders[u].price # 0)
       /\ last'.op # "ReplaceRequest"
       => \A u \in DOMAIN orders' : orders'[u].price # 0]_vars

\* ------------------------------------------------------------------------
\* C38: trades are queued before the acknowledgement
\* ------------------------------------------------------------------------

\* the frames the step appended to the requesting connection, without the
\* last one
BeforeLast(c) == SubSeq(NewFrames(c), 1, Len(NewFrames(c)) - 1)

\* C38: in a step that handles an OrderRequest or a ReplaceRequest, the last
\* frame queued on the requesting connection is the request's own
\* OrderResponse or ReplaceResponse, every frame the step queued before it on
\* that connection is a TradeResponse, and the sequence numbers ascend in
\* that order: the TradeResponses of the request are all queued before its
\* acknowledgement.
C38_TradesBeforeAck ==
    [][last'.op \in {"OrderRequest", "ReplaceRequest"} =>
            LET c == last'.conn
                new == NewFrames(c)
            IN /\ new # <<>>
               /\ new[Len(new)].kind = ResponseKind(last'.op)
               /\ \A i \in 1..Len(BeforeLast(c)) :
                        /\ BeforeLast(c)[i].kind = "TradeResponse"
                        /\ BeforeLast(c)[i].sequence < new[Len(new)].sequence
               /\ SubSeq(conns'[c].output_buffer, 1, Len(conns[c].output_buffer))
                        = conns[c].output_buffer
      ]_vars

\* an OrderRequest traded as the taker: its connection's queue ends with a
\* TradeResponse of the taker's fill followed by the Accepted OrderResponse
C38_Witness ==
    /\ last.op = "OrderRequest"
    /\ \E i \in 1..Len(last.fills) :
            /\ last.fills[i].role = "taker"
            /\ last.fills[i].account = conns[last.conn].account
    /\ Len(conns[last.conn].output_buffer) >= 2
    /\ LET buffer == conns[last.conn].output_buffer
       IN /\ buffer[Len(buffer)].kind = "OrderResponse"
          /\ buffer[Len(buffer)].status = "Accepted"
          /\ buffer[Len(buffer) - 1].kind = "TradeResponse"
          /\ buffer[Len(buffer) - 1].sequence + 1 = buffer[Len(buffer)].sequence

\* ------------------------------------------------------------------------
\* C39: the write loop and the output queue
\* ------------------------------------------------------------------------

\* C39: on each session a socket write is outstanding exactly when the
\* session's output queue is not empty.
C39_WriteWhileQueued ==
    \A c \in Conns : conns[c].writing <=> conns[c].output_buffer # <<>>

\* what the write loop does keep: every step other than the write handler's
\* error branch leaves a write outstanding exactly when frames are queued
WriteLoopKept ==
    [][\A c \in Conns :
        /\ conns[c].writing <=> conns[c].output_buffer # <<>>
        /\ ~(last'.op = "WriteError" /\ last'.conn = c)
        => (conns'[c].writing <=> conns'[c].output_buffer # <<>>)]_vars

\* once the error branch has run on a session, its write loop is never
\* started again: the frames stay queued, and send queues more behind them
WriteLoopStalled(c) ==
    /\ ~conns[c].writing
    /\ conns[c].output_buffer # <<>>
StalledForGood ==
    [][\A c \in Conns :
        WriteLoopStalled(c) /\ conns'[c].status = "open"
        => /\ WriteLoopStalled(c)'
           /\ Len(conns'[c].output_buffer) >= Len(conns[c].output_buffer)]_vars

\* the sessions' logins and logouts where the completion handler of every
\* outstanding write is eventually called, with or without an error
SpecDrain ==
    SpecLogin /\ \A c \in Conns : WF_vars(WriteDone(c) \/ WriteError(c))

\* every queue that holds frames is eventually empty
QueueDrains ==
    \A c \in Conns :
        conns[c].output_buffer # <<>> ~> conns[c].output_buffer = <<>>

\* as long as no write completes with an error, every queue drains
DrainsWithoutError == [](last.op # "WriteError") => QueueDrains

\* ------------------------------------------------------------------------
\* C40: the client's set of active orders
\* ------------------------------------------------------------------------

\* every frame the server has sent on connection c has been written,
\* delivered to the client and handled by it
Settled(c) ==
    /\ clients[c].connected
    /\ conns[c].output_buffer = <<>>
    /\ clients[c].inbound = <<>>

\* the uids of the resting orders of the account the session on connection
\* c is logged in to (none when it is not logged in)
OrdersOfSession(c) ==
    IF conns[c].account = nullptr THEN {}
    ELSE accounts[conns[c].account].orders

\* C40: whenever every frame sent to a client has been delivered and
\* handled, the client's set of active orders is the set of uids of the
\* resting orders of its account on the server.
C40_ClientTracksOrders ==
    \A c \in Conns : Settled(c) => clients[c].active_orders = OrdersOfSession(c)

\* what the client does keep: once settled, every uid in its set is a
\* resting order of its account
ClientKnowsOnlyResting ==
    \A c \in Conns :
        Settled(c) => clients[c].active_orders \subseteq OrdersOfSession(c)

====
